---- MODULE Spec2Model ----
(***************************************************************************)
(* A model of the drone-analysis service (src/drone_analysis): the two     *)
(* request handlers of app.py with the per-image pipeline they drive, and  *)
(* the numeric components of utils/image_processor.py.                     *)
(*                                                                         *)
(* Numbers.  Python floats are modelled as exact rationals <<n, d>> with   *)
(* d > 0 and gcd(n, d) = 1.  A pair <<s, 0>> is a value that is not a      *)
(* number of the model: <<0, 0>> is NaN and <<1, 0>>, <<-1, 0>> are the    *)
(* values of sign s whose magnitude lies beyond the model's integers       *)
(* (numpy's inf, or a quotient by the 1e-10 that replaces a zero           *)
(* denominator).                                                           *)
(***************************************************************************)
EXTENDS Integers, Sequences, FiniteSets, TLC

VARIABLES
    pc,               \* position of the request handler being served
    request,          \* the HTTP request being served
    i,                \* loop index of analyze_batch_images (1-based)
    batch_results,    \* app.py:219
    processed_files,  \* app.py:220
    trace,            \* per submitted file: the pipeline steps run for it, in order
    given_metadata,   \* the metadata of each process_drone_image call, in order
    ledger,           \* payloads accepted by the blockchain API
    response,         \* the handler's HTTP response
    call,             \* a direct call of a component: its name and arguments
    ret,              \* what that call returned or raised
    vegetation_model, \* the VegetationDetectionModel of ai_processor (app.py:46)
    threads,          \* per worker thread: its position in a classifier call
    retry_count,      \* blockchain_client.py:35, of the innermost _make_request
    wire              \* HTTP attempts and sleeps of _make_request, in order

vars == <<pc, request, i, batch_results, processed_files, trace, given_metadata, ledger,
          response, call, ret, vegetation_model, threads, retry_count, wire>>

libVars == <<vegetation_model, threads, retry_count, wire>>

appVars == <<pc, request, i, batch_results, processed_files, trace, given_metadata,
             ledger, response, libVars>>

None == [kind |-> "none"]
Ok(v) == [kind |-> "ok", val |-> v]
Raise(e) == [kind |-> "raise", exc |-> e]

-----------------------------------------------------------------------------
(* Arithmetic on the rationals that stand for Python floats.               *)

Abs(x) == IF x < 0 THEN -x ELSE x

RECURSIVE GCD(_, _)
GCD(a, b) == IF b = 0 THEN a ELSE GCD(b, a % b)

Rat(n, d) ==
    LET g == GCD(Abs(n), Abs(d))
        s == IF d < 0 THEN -1 ELSE 1
    IN  <<(s * n) \div g, (s * d) \div g>>

IntF(n) == <<n, 1>>

IsNum(a) == a[2] > 0
NaN == <<0, 0>>
Big(s) == <<s, 0>>
Sign(n) == IF n > 0 THEN 1 ELSE IF n < 0 THEN -1 ELSE 0

RMul(a, b) ==
    LET g1 == GCD(Abs(a[1]), b[2])
        g2 == GCD(Abs(b[1]), a[2])
    IN  <<(a[1] \div g1) * (b[1] \div g2), (a[2] \div g2) * (b[2] \div g1)>>

RInv(a) == IF a[1] < 0 THEN <<-a[2], -a[1]>> ELSE <<a[2], a[1]>>

RDiv(a, b) == RMul(a, RInv(b))

RAdd(a, b) ==
    LET g == GCD(a[2], b[2])
    IN  Rat(a[1] * (b[2] \div g) + b[1] * (a[2] \div g), (a[2] \div g) * b[2])

RNeg(a) == <<-a[1], a[2]>>
RSub(a, b) == RAdd(a, RNeg(b))
RLt(a, b) == a[1] * b[2] < b[1] * a[2]
RLe(a, b) == a[1] * b[2] <= b[1] * a[2]
RZero == <<0, 1>>
ROne == <<1, 1>>

\* The 1e-10 that calculate_ndvi puts in place of a zero denominator.
Eps == <<1, -10>>

\* numpy's float division: x / 0 is nan or +-inf (with a warning, not an
\* error); a nonzero x / 1e-10 is beyond the model's integers.
FDiv(a, b) ==
    IF ~IsNum(a) THEN a
    ELSE IF b = Eps THEN (IF a = RZero THEN RZero ELSE Big(Sign(a[1])))
    ELSE IF b = RZero THEN (IF a = RZero THEN NaN ELSE Big(Sign(a[1])))
    ELSE RDiv(a, b)

FAdd(a, b) ==
    IF a = NaN \/ b = NaN THEN NaN
    ELSE IF ~IsNum(a) THEN (IF ~IsNum(b) /\ b # a THEN NaN ELSE a)
    ELSE IF ~IsNum(b) THEN b
    ELSE RAdd(a, b)

-----------------------------------------------------------------------------
(* Geometry estimator: ImageProcessor.calculate_image_area.                *)

\* A slip in the ground dimensions: the height taken from the width.
calculate_image_area_square(altitude, focal_length, sensor_width, image_width, image_height) ==
    LET divisor == RMul(focal_length, image_width)
    IN  IF divisor = RZero
        THEN Raise("ZeroDivisionError")
        ELSE LET gsd == RDiv(RMul(sensor_width, altitude), divisor)
                 ground_width == RMul(gsd, image_width)
                 ground_height == RMul(gsd, image_width)
             IN  Ok(RMul(ground_width, ground_height))

\* The function has no guard on its arguments.  A zero divisor raises
\* ZeroDivisionError at the first statement; the handler at 247-249 logs and
\* re-raises.
calculate_image_area(altitude, focal_length, sensor_width, image_width, image_height) ==
    LET divisor == RMul(focal_length, image_width)
    IN  IF divisor = RZero
        THEN Raise("ZeroDivisionError")
        ELSE LET gsd == RDiv(RMul(sensor_width, altitude), divisor)
                 ground_width == RMul(gsd, image_width)
                 ground_height == RMul(gsd, image_height)
                 area_sqm == RMul(ground_width, ground_height)
             IN  Ok(area_sqm)

\* Arguments of the direct calls: the values of the specification's test
\* (100 m, 35 mm, 23.5 mm, 1920 x 1080), other positive values, zero and
\* negative ones.
Altitudes == {IntF(-100), IntF(0), IntF(50), IntF(100)}
FocalLengths == {IntF(-35), IntF(0), IntF(35), IntF(50)}
SensorWidths == {IntF(-1), IntF(0), Rat(47, 2), IntF(36)}
ImageWidths == {IntF(-1), IntF(0), IntF(1024), IntF(1920)}
ImageHeights == {IntF(-1), IntF(0), IntF(768), IntF(1080)}

AreaCalls ==
    [fn : {"calculate_image_area"}, altitude : Altitudes, focal_length : FocalLengths,
     sensor_width : SensorWidths, image_width : ImageWidths, image_height : ImageHeights]

AppIdle ==
    /\ pc = "idle"
    /\ request = None
    /\ i = 0
    /\ batch_results = <<>>
    /\ processed_files = <<>>
    /\ trace = <<>>
    /\ given_metadata = <<>>
    /\ ledger = <<>>
    /\ response = None
    /\ vegetation_model = [model |-> 0, is_loaded |-> FALSE]
    /\ threads = <<>>
    /\ retry_count = 0
    /\ wire = <<>>

InitArea ==
    /\ AppIdle
    /\ call \in AreaCalls
    /\ ret = None

CallArea ==
    /\ call.fn = "calculate_image_area"
    /\ ret = None
    /\ ret' = calculate_image_area(call.altitude, call.focal_length, call.sensor_width,
                                   call.image_width, call.image_height)
    /\ UNCHANGED <<appVars, call>>

NextArea == CallArea

SpecArea == InitArea /\ [][NextArea]_vars

AreaReturned == call.fn = "calculate_image_area" /\ ret # None

AreaArgs == <<call.altitude, call.focal_length, call.sensor_width,
              call.image_width, call.image_height>>

\* C5: calculate_image_area fails whenever one of its five arguments is <= 0;
\* it never returns a number for such arguments.  (Stated as claimed; the code
\* returns 0 for altitude = 0.)
C5_NonPositiveRejected ==
    (AreaReturned /\ \E k \in 1..5 : RLe(AreaArgs[k], RZero)) => ret.kind = "raise"

\* C6: for strictly positive arguments calculate_image_area returns a strictly
\* positive area, equal to (gsd * image_width) * (gsd * image_height) with
\* gsd = (sensor_width * altitude) / (focal_length * image_width).
C6_PositiveArea ==
    (AreaReturned /\ \A k \in 1..5 : RLt(RZero, AreaArgs[k])) =>
        LET gsd == RDiv(RMul(call.sensor_width, call.altitude),
                        RMul(call.focal_length, call.image_width))
        IN  /\ ret.kind = "ok"
            /\ RLt(RZero, ret.val)
            /\ ret.val = RMul(RMul(gsd, call.image_width), RMul(gsd, call.image_height))

\* The call of the specification's test has returned its area.
C6_Witness ==
    /\ AreaReturned
    /\ AreaArgs = <<IntF(100), IntF(35), Rat(47, 2), IntF(1920), IntF(1080)>>
    /\ ret = Ok(Rat(497025, 196))

-----------------------------------------------------------------------------
(* Images.  An ndarray of shape (h, w, 3) is [h, w, px] with px a function *)
(* from the pixel positions <<row, col>> to <<red, green, blue>>; a 2-D     *)
(* array (an index map, a mask as a set of positions) has the same h, w.   *)

Grid(h, w) == {<<r, c>> : r \in 0..(h - 1), c \in 0..(w - 1)}

\* The sum of the 2-D array f over its positions lo..hi in row-major order
\* (numbered from 0), by halves.
RECURSIVE SumRange(_, _, _, _)
SumRange(f, w, lo, hi) ==
    IF lo > hi THEN RZero
    ELSE IF lo = hi THEN f[<<lo \div w, lo % w>>]
    ELSE LET mid == (lo + hi) \div 2
         IN  FAdd(SumRange(f, w, lo, mid), SumRange(f, w, mid + 1, hi))

\* np.mean of a 2-D array of shape (h, w); numpy gives nan for an empty one.
Mean2D(f, h, w) == FDiv(SumRange(f, w, 0, h * w - 1), IntF(h * w))

-----------------------------------------------------------------------------
(* Vegetation index engine: ImageProcessor.calculate_ndvi.                 *)

\* A slip: the remap of the ratio from [-1, 1] to [0, 1] left out.
ndvi_pixel_raw(red, green) ==
    LET numerator == RSub(green, red)
        denominator == RAdd(green, red)
    IN  FDiv(numerator, IF denominator = RZero THEN Eps ELSE denominator)

\* A slip: the zero denominator left in place.
ndvi_pixel_unguarded(red, green) ==
    LET numerator == RSub(green, red)
        denominator == RAdd(green, red)
    IN  FDiv(FAdd(FDiv(numerator, denominator), ROne), IntF(2))

\* Lines 76-85 at one pixel.
ndvi_pixel(red, green) ==
    LET numerator == RSub(green, red)
        denominator == RAdd(green, red)
        guarded == IF denominator = RZero THEN Eps ELSE denominator
        ndvi == FDiv(numerator, guarded)
    IN  FDiv(FAdd(ndvi, ROne), IntF(2))

calculate_ndvi(image) ==
    LET ndvi == [p \in DOMAIN image.px |->
                    ndvi_pixel(IntF(image.px[p][1]), IntF(image.px[p][2]))]
        avg_ndvi == Mean2D(ndvi, image.h, image.w)
    IN  Ok([ndvi |-> [h |-> image.h, w |-> image.w, px |-> ndvi], avg_ndvi |-> avg_ndvi])

\* Test images: h x w checkerboards of two colours.  cv2.imread gives
\* intensities 0..255; a caller's own array may hold negative ones.
MaxNdviDim == 2
Levels == {-1, 0, 1, 2, 128, 255}
Colours == {<<r, g, 0>> : r \in Levels, g \in Levels}

Checkerboard(h, w, p, q) ==
    [h |-> h, w |-> w,
     px |-> [x \in Grid(h, w) |-> IF (x[1] + x[2]) % 2 = 0 THEN p ELSE q]]

NdviCalls ==
    {[fn |-> "calculate_ndvi", image |-> Checkerboard(h, w, p, q)] :
        h \in 1..MaxNdviDim, w \in 1..MaxNdviDim, p \in Colours, q \in Colours}

InitNdvi ==
    /\ AppIdle
    /\ call \in NdviCalls
    /\ ret = None

CallNdvi ==
    /\ call.fn = "calculate_ndvi"
    /\ ret = None
    /\ ret' = calculate_ndvi(call.image)
    /\ UNCHANGED <<appVars, call>>

NextNdvi == CallNdvi

SpecNdvi == InitNdvi /\ [][NextNdvi]_vars

NdviReturned == call.fn = "calculate_ndvi" /\ ret # None

NonNegative(image) ==
    \A p \in DOMAIN image.px : \A k \in 1..3 : image.px[p][k] >= 0

\* C7: for an image of non-negative intensities the index map has the
\* image's height and width and every value lies in [0, 1].
C7_IndexInUnitInterval ==
    (NdviReturned /\ NonNegative(call.image)) =>
        /\ ret.kind = "ok"
        /\ ret.val.ndvi.h = call.image.h
        /\ ret.val.ndvi.w = call.image.w
        /\ DOMAIN ret.val.ndvi.px = Grid(call.image.h, call.image.w)
        /\ \A p \in DOMAIN ret.val.ndvi.px :
              LET v == ret.val.ndvi.px[p]
              IN  IsNum(v) /\ RLe(RZero, v) /\ RLe(v, ROne)

\* A 2 x 2 image of two non-negative colours whose index map reaches both
\* ends of the interval.
C7_Witness ==
    /\ NdviReturned
    /\ NonNegative(call.image)
    /\ call.image.h = 2 /\ call.image.w = 2
    /\ ret.val.ndvi.px[<<0, 0>>] = ROne
    /\ ret.val.ndvi.px[<<0, 1>>] = RZero

\* C8: at every pixel with red = green, the all-zero pixel included, the
\* index is exactly 1/2.
C8_EqualChannelsGiveHalf ==
    NdviReturned =>
        \A p \in DOMAIN call.image.px :
            call.image.px[p][1] = call.image.px[p][2] => ret.val.ndvi.px[p] = <<1, 2>>

\* An image holding a black pixel and a gray one, both mapped to 1/2.
C8_Witness ==
    /\ NdviReturned
    /\ call.image.h = 1 /\ call.image.w = 2
    /\ call.image.px[<<0, 0>>] = <<0, 0, 0>>
    /\ call.image.px[<<0, 1>>] = <<128, 128, 0>>
    /\ ret.val.ndvi.px[<<0, 0>>] = <<1, 2>>
    /\ ret.val.ndvi.px[<<0, 1>>] = <<1, 2>>

-----------------------------------------------------------------------------
(* Classical segmenter: ImageProcessor.detect_vegetation.  A mask is the   *)
(* set of its nonzero positions.                                           *)

VEGETATION_INDEX_THRESHOLD == <<3, 10>>
MIN_VEGETATION_AREA == <<1, 100>>

\* The 5 x 5 kernel of ones reaches KernelReach positions each way from its
\* centre, the anchor.
KernelReach == 2
Offsets == (-KernelReach..KernelReach) \X (-KernelReach..KernelReach)

\* numpy's a > b on floats: false for nan.
FGt(a, b) == IF IsNum(a) THEN RLt(b, a) ELSE a = Big(1)

\* cv2.dilate and cv2.erode with the default border: positions outside the
\* image neither set a pixel nor clear one.
Dilate(mask, h, w) ==
    {p \in Grid(h, w) : \E d \in Offsets : <<p[1] + d[1], p[2] + d[2]>> \in mask}

Erode(mask, h, w) ==
    {p \in mask : \A d \in Offsets :
        LET q == <<p[1] + d[1], p[2] + d[2]>>
        IN  (q[1] \in 0..(h - 1) /\ q[2] \in 0..(w - 1)) => q \in mask}

morphologyEx(mask, op, h, w) ==
    IF op = "MORPH_CLOSE" THEN Erode(Dilate(mask, h, w), h, w)
    ELSE Dilate(Erode(mask, h, w), h, w)

Neighbours8(p) ==
    {q \in {<<p[1] + dr, p[2] + dc>> : dr \in -1..1, dc \in -1..1} : q # p}

Neighbours4(p) ==
    {<<p[1] - 1, p[2]>>, <<p[1] + 1, p[2]>>, <<p[1], p[2] - 1>>, <<p[1], p[2] + 1>>}

\* The positions of `within` reached from the frontier by steps to the 8 (or
\* 4) neighbours.
RECURSIVE Flood(_, _, _, _)
Flood(seen, frontier, within, eight) ==
    IF frontier = {} THEN seen
    ELSE LET next == {q \in within :
                        /\ q \notin seen
                        /\ \E p \in (IF eight THEN Neighbours8(q) ELSE Neighbours4(q)) :
                              p \in frontier}
         IN  Flood({q \in within : q \in seen \/ q \in next}, next, within, eight)

\* The 8-connected components of a mask.
RECURSIVE Components(_)
Components(mask) ==
    IF mask = {} THEN {}
    ELSE LET seed == CHOOSE p \in mask : TRUE
             component == Flood({seed}, {seed}, mask, TRUE)
         IN  {component} \cup Components({p \in mask : p \notin component})

\* What the outer border of a component encloses: the component with its
\* holes, i.e. every position not joined to the outside of the image by
\* 4-connected positions off the component.
Enclosed(component, h, w) ==
    LET off == {p \in Grid(h, w) : p \notin component}
        rim == {p \in off : p[1] \in {0, h - 1} \/ p[2] \in {0, w - 1}}
        outside == Flood(rim, rim, off, FALSE)
    IN  {p \in Grid(h, w) : p \notin outside}

\* cv2.findContours(mask, RETR_EXTERNAL, CHAIN_APPROX_SIMPLE): one outer
\* border per component that lies in no hole of another; a contour is
\* given by what it encloses.
findContours(mask, h, w) ==
    LET components == Components(mask)
        enclosed == {Enclosed(c, h, w) : c \in components}
    IN  {e \in enclosed : \A f \in enclosed : f = e \/ ~(e \subseteq f)}

\* cv2.contourArea: the area of the polygon through the centres of the border
\* pixels.  A unit cell between four pixel centres lies in it when all four
\* are enclosed, and half of it when three are (the border cuts the corner).
contourArea(contour, h, w) ==
    LET corners(r, c) ==
            Cardinality({<<r, c>>, <<r + 1, c>>, <<r, c + 1>>, <<r + 1, c + 1>>} \cap contour)
        cells == (0..(h - 2)) \X (0..(w - 2))
        full == {x \in cells : corners(x[1], x[2]) = 4}
        half == {x \in cells : corners(x[1], x[2]) = 3}
    IN  Rat(2 * Cardinality(full) + Cardinality(half), 2)

\* ndvi[final_mask > 0] summed: the values of f at the positions of the mask.
SumIn(f, w, h, mask) ==
    SumRange([p \in Grid(h, w) |-> IF p \in mask THEN f[p] ELSE RZero], w, 0, h * w - 1)

\* A slip: the mean taken of an empty selection too (numpy gives nan).
vegetation_density_unguarded(ndvi, final_mask) ==
    FDiv(SumIn(ndvi.px, ndvi.w, ndvi.h, final_mask),
         IntF(Cardinality(final_mask)))

\* Lines 124-125.
vegetation_density(ndvi, final_mask) ==
    IF Cardinality(final_mask) > 0
    THEN FDiv(SumIn(ndvi.px, ndvi.w, ndvi.h, final_mask),
              IntF(Cardinality(final_mask)))
    ELSE RZero

\* Lines 100-105: the thresholded mask after closing, then opening.
CleanedMask(image, ndvi) ==
    LET vegetation_mask == {p \in Grid(image.h, image.w) :
                               FGt(ndvi.px[p], VEGETATION_INDEX_THRESHOLD)}
        closed == morphologyEx(vegetation_mask, "MORPH_CLOSE", image.h, image.w)
    IN  morphologyEx(closed, "MORPH_OPEN", image.h, image.w)

detect_vegetation(image, ndvi) ==
    LET h == image.h
        w == image.w
        contours == findContours(CleanedMask(image, ndvi), h, w)
        min_area == RMul(IntF(h * w), MIN_VEGETATION_AREA)
        valid_contours == {cnt \in contours : RLt(min_area, contourArea(cnt, h, w))}
        final_mask == {p \in Grid(h, w) : \E cnt \in valid_contours : p \in cnt}
        total_pixels == h * w
        vegetation_pixels == Cardinality(final_mask)
    IN  Ok([final_mask |-> final_mask,
            stats |-> [vegetation_coverage |-> FDiv(IntF(vegetation_pixels), IntF(total_pixels)),
                       vegetation_density |-> vegetation_density(ndvi, final_mask),
                       vegetation_pixels |-> vegetation_pixels,
                       total_pixels |-> total_pixels,
                       num_vegetation_areas |-> Cardinality(valid_contours)]])

\* Test scenes: an image of a background colour with rectangular blobs of a
\* vegetation colour at <<row, col>> of size <<height, width>>.  The index of
\* the vegetation colour is 3/4; the backgrounds have 1/5, exactly the
\* threshold 3/10, and (black) 1/2.
VegDim == 20
SceneDims == {<<VegDim \div 2, VegDim \div 2>>, <<VegDim \div 2, VegDim>>, <<VegDim, VegDim>>}
VegColour == <<50, 150, 50>>
BgColours == {<<200, 50, 50>>, <<7, 3, 0>>, <<0, 0, 0>>}
BlobSizes == {<<bh, bw>> : bh \in {1, 3, 5, 7}, bw \in {3, 5}}

Blob(r0, c0, size) == [r0 |-> r0, c0 |-> c0, bh |-> size[1], bw |-> size[2]]

ScenesOf(h, w) ==
    {[h |-> h, w |-> w, bg |-> bg, blobs |-> first \cup second, holes |-> {}] :
        bg \in BgColours,
        first \in {{}} \cup {{Blob(at, at, size)} : at \in {0, 3}, size \in BlobSizes},
        second \in {{}, {Blob(h - 5, w - 5, <<5, 5>>)}}}

\* Images one pixel high or wide, and the smallest that is neither, in a
\* single colour.
ThinDims == {<<1, 1>>, <<1, VegDim \div 4>>, <<VegDim \div 4, 1>>, <<2, 2>>}
ThinScenes ==
    {[h |-> d[1], w |-> d[2], bg |-> bg, blobs |-> {}, holes |-> {}] :
        d \in ThinDims, bg \in BgColours}

\* A clearing: a rectangle of bare ground (index 1/5) inside vegetation, in
\* a stand that leaves a margin to the image border and in one that fills
\* the image.  A clearing 5 wide or more is not closed by the 5x5 kernel.
BareColour == <<200, 50, 50>>
ClearingSizes == {<<3, 3>>, <<6, 6>>, <<6, 8>>}
ClearingScenes ==
    {[h |-> VegDim, w |-> VegDim, bg |-> BareColour,
      blobs |-> {Blob(2, 2, <<VegDim - 4, VegDim - 4>>)},
      holes |-> {Blob(7, 7, size)}] : size \in ClearingSizes}
    \cup {[h |-> VegDim, w |-> VegDim, bg |-> VegColour, blobs |-> {},
           holes |-> {Blob(6, 5, size)}] : size \in ClearingSizes}

Scenes == UNION {ScenesOf(d[1], d[2]) : d \in SceneDims} \cup ThinScenes \cup ClearingScenes

SceneImage(scene) ==
    [h |-> scene.h, w |-> scene.w,
     px |-> [p \in Grid(scene.h, scene.w) |->
                IF \E b \in scene.holes :
                      /\ p[1] \in b.r0..(b.r0 + b.bh - 1)
                      /\ p[2] \in b.c0..(b.c0 + b.bw - 1)
                THEN BareColour
                ELSE IF \E b \in scene.blobs :
                      /\ p[1] \in b.r0..(b.r0 + b.bh - 1)
                      /\ p[2] \in b.c0..(b.c0 + b.bw - 1)
                THEN VegColour ELSE scene.bg]]

InitVeg ==
    /\ AppIdle
    /\ call \in [fn : {"detect_vegetation"}, scene : Scenes]
    /\ ret = None

\* process_drone_image, lines 259-262: the index map of the image, then its
\* segmentation.
CallVeg ==
    /\ call.fn = "detect_vegetation"
    /\ ret = None
    /\ LET image == SceneImage(call.scene)
       IN  ret' = detect_vegetation(image, calculate_ndvi(image).val.ndvi)
    /\ UNCHANGED <<appVars, call>>

NextVeg == CallVeg

SpecVeg == InitVeg /\ [][NextVeg]_vars

VegReturned == call.fn = "detect_vegetation" /\ ret # None

\* The cleaned mask of the scene that was segmented, and its regions.
SceneCleaned ==
    LET image == SceneImage(call.scene)
    IN  CleanedMask(image, calculate_ndvi(image).val.ndvi)

SceneMinArea == RMul(IntF(call.scene.h * call.scene.w), MIN_VEGETATION_AREA)

\* C9: when the cleaned mask holds a single region, the region is discarded
\* (final mask empty, region count 0) if its pixel area is below
\* min_area = MIN_VEGETATION_AREA * total_pixels, and survives (its pixels are
\* in the final mask, region count 1) if its pixel area is min_area or more.
C9_RegionAreaFilter ==
    VegReturned =>
        LET regions == Components(SceneCleaned)
        IN  Cardinality(regions) = 1 =>
                \A region \in regions :
                    IF RLt(IntF(Cardinality(region)), SceneMinArea)
                    THEN /\ ret.val.final_mask = {}
                         /\ ret.val.stats.num_vegetation_areas = 0
                    ELSE /\ region \subseteq ret.val.final_mask
                         /\ ret.val.stats.num_vegetation_areas = 1

\* No pixel of the scene has an index above the threshold.
NoPixelAboveThreshold ==
    LET image == SceneImage(call.scene)
    IN  \A p \in Grid(image.h, image.w) :
            ~FGt(ndvi_pixel(IntF(image.px[p][1]), IntF(image.px[p][2])),
                 VEGETATION_INDEX_THRESHOLD)

\* C10: when no pixel's index exceeds the threshold, or no region passes the
\* area filter, detect_vegetation returns (it does not raise) an empty mask
\* with coverage 0, vegetation_pixels 0, region count 0 and density exactly
\* 0, not NaN.
C10_NothingDetected ==
    (VegReturned /\ (NoPixelAboveThreshold \/ ret.val.stats.num_vegetation_areas = 0)) =>
        /\ ret.kind = "ok"
        /\ ret.val.final_mask = {}
        /\ ret.val.stats.vegetation_coverage = RZero
        /\ ret.val.stats.vegetation_pixels = 0
        /\ ret.val.stats.num_vegetation_areas = 0
        /\ ret.val.stats.vegetation_density = RZero

C10_Witness ==
    /\ VegReturned
    /\ NoPixelAboveThreshold
    /\ call.scene.blobs = {}
    /\ ret.kind = "ok"
    /\ ret.val.final_mask = {}
    /\ ret.val.stats.vegetation_density = RZero

\* Every pixel of the scene has an index above the threshold.
AllPixelsAboveThreshold ==
    LET image == SceneImage(call.scene)
    IN  \A p \in Grid(image.h, image.w) :
            FGt(ndvi_pixel(IntF(image.px[p][1]), IntF(image.px[p][2])),
                VEGETATION_INDEX_THRESHOLD)

\* C11: when every pixel's index is above the threshold, detect_vegetation
\* returns a mask covering every pixel: coverage 1, vegetation_pixels =
\* total_pixels, region count 1, and density the mean of the index map.
C11_AllVegetation ==
    (VegReturned /\ AllPixelsAboveThreshold) =>
        /\ ret.kind = "ok"
        /\ ret.val.final_mask = Grid(call.scene.h, call.scene.w)
        /\ ret.val.stats.vegetation_coverage = ROne
        /\ ret.val.stats.vegetation_pixels = ret.val.stats.total_pixels
        /\ ret.val.stats.num_vegetation_areas = 1
        /\ ret.val.stats.vegetation_density =
               calculate_ndvi(SceneImage(call.scene)).val.avg_ndvi

\* The claim of C11 for images at least two pixels high and wide.
AllVegetationFromTwoByTwo ==
    (call.fn = "detect_vegetation" /\ call.scene.h >= 2 /\ call.scene.w >= 2) =>
        C11_AllVegetation

\* A scene whose only region is dropped by the area filter.
OnlyRegionDropped ==
    /\ VegReturned
    /\ SceneCleaned # {}
    /\ ret.val.stats.num_vegetation_areas = 0
    /\ ret.val.stats.vegetation_density = RZero

\* C24: the final mask holds only pixels of surviving regions: each of
\* its pixels is set in the cleaned mask and lies in a region of it that
\* passed the area filter; so vegetation_pixels is at most the number of
\* pixels of the cleaned mask, and the coverage lies in [0, 1].
C24_FinalMaskWithinCleaned ==
    VegReturned =>
        LET surviving == {region \in Components(SceneCleaned) :
                             RLt(SceneMinArea,
                                 contourArea(Enclosed(region, call.scene.h, call.scene.w),
                                             call.scene.h, call.scene.w))}
        IN  /\ \A p \in ret.val.final_mask : \E region \in surviving : p \in region
            /\ ret.val.stats.vegetation_pixels <= Cardinality(SceneCleaned)
            /\ RLe(RZero, ret.val.stats.vegetation_coverage)
            /\ RLe(ret.val.stats.vegetation_coverage, ROne)

\* What holds: the final mask lies within what the outer borders of the
\* surviving regions enclose, and the coverage is in [0, 1].
FinalMaskWithinBorders ==
    VegReturned =>
        /\ LET borders == {Enclosed(region, call.scene.h, call.scene.w) :
                              region \in Components(SceneCleaned)}
           IN  \A p \in ret.val.final_mask : \E border \in borders : p \in border
        /\ RLe(RZero, ret.val.stats.vegetation_coverage)
        /\ RLe(ret.val.stats.vegetation_coverage, ROne)

\* An image of vegetation with a clearing of 6 x 6 in it: the cleaned
\* mask has the 364 pixels of vegetation, the final mask all 400.
ClearingCounted ==
    /\ VegReturned
    /\ call.scene.bg = VegColour
    /\ call.scene.holes = {Blob(6, 5, <<6, 6>>)}
    /\ Cardinality(SceneCleaned) = 364
    /\ ret.val.stats.vegetation_pixels = 400
    /\ ret.val.stats.vegetation_coverage = ROne
    /\ ret.val.stats.num_vegetation_areas = 1

\* Without a clearing that survives the closing, the final mask is within
\* the cleaned mask.
FinalMaskWithinCleanedUnlessClearing ==
    (VegReturned /\ \A b \in call.scene.holes : b.bh < 5 \/ b.bw < 5) =>
        ret.val.final_mask \subseteq SceneCleaned

-----------------------------------------------------------------------------
(* Estimation: ImageProcessor.estimate_co2_sequestration and               *)
(* TensorFlowProcessor.estimate_biomass.                                   *)

CO2_PER_SQM == <<1, 2>>
VEGETATION_DENSITY_MULTIPLIER == <<6, 5>>

RECURSIVE Pow10(_)
Pow10(n) == IF n = 0 THEN 1 ELSE 10 * Pow10(n - 1)

\* Python's round(x, ndigits): to the nearest multiple of 10^-ndigits, a tie
\* to the even one.
Round(x, ndigits) ==
    LET scaled == RMul(x, IntF(Pow10(ndigits)))
        q == scaled[1] \div scaled[2]
        twice == 2 * (scaled[1] - q * scaled[2])
        up == twice > scaled[2] \/ (twice = scaled[2] /\ q % 2 = 1)
    IN  Rat(IF up THEN q + 1 ELSE q, Pow10(ndigits))

\* A slip: the density multiplier left out of the effective area.
estimate_co2_sequestration_unweighted(vegetation_stats, image_area_sqm) ==
    LET vegetation_coverage == vegetation_stats.vegetation_coverage
        density == vegetation_stats.vegetation_density
        vegetated_area == RMul(image_area_sqm, vegetation_coverage)
        effective_area == RMul(vegetated_area, density)
        co2_sequestered == RMul(effective_area, CO2_PER_SQM)
        co2_sequestered_tons == RDiv(co2_sequestered, IntF(1000))
    IN  Ok([co2_sequestered_kg |-> Round(co2_sequestered, 2),
            co2_sequestered_tons |-> Round(co2_sequestered_tons, 4),
            vegetated_area_sqm |-> Round(vegetated_area, 2),
            effective_area_sqm |-> Round(effective_area, 2),
            vegetation_coverage_percent |-> Round(RMul(vegetation_coverage, IntF(100)), 2),
            vegetation_density_score |-> Round(density, 3)])

estimate_co2_sequestration(vegetation_stats, image_area_sqm) ==
    LET vegetation_coverage == vegetation_stats.vegetation_coverage
        density == vegetation_stats.vegetation_density
        vegetated_area == RMul(image_area_sqm, vegetation_coverage)
        effective_area == RMul(RMul(vegetated_area, density),
                               VEGETATION_DENSITY_MULTIPLIER)
        co2_sequestered == RMul(effective_area, CO2_PER_SQM)
        co2_sequestered_tons == RDiv(co2_sequestered, IntF(1000))
    IN  Ok([co2_sequestered_kg |-> Round(co2_sequestered, 2),
            co2_sequestered_tons |-> Round(co2_sequestered_tons, 4),
            vegetated_area_sqm |-> Round(vegetated_area, 2),
            effective_area_sqm |-> Round(effective_area, 2),
            vegetation_coverage_percent |-> Round(RMul(vegetation_coverage, IntF(100)), 2),
            vegetation_density_score |-> Round(density, 3)])

\* Calls: coverage and density as detect_vegetation gives them, and ground
\* areas as calculate_image_area gives them (a negative height gives a
\* negative area, a zero altitude a zero one).
Coverages == {RZero, Rat(1, 16), Rat(1, 3), Rat(1, 2), ROne}
Densities == {RZero, Rat(3, 10), Rat(1, 2), Rat(3, 4), ROne}
GroundAreas == {IntF(-100), RZero, ROne, IntF(100), Rat(497025, 196)}

Co2Calls ==
    [fn : {"estimate_co2_sequestration"},
     vegetation_stats : [vegetation_coverage : Coverages, vegetation_density : Densities],
     image_area_sqm : GroundAreas]

\* estimate_biomass (ai_model.py:280-311): Biomass = a * NDVI^b with a = 2.5
\* and b = 2.0 on the mean of the index map.
estimate_biomass(ndvi, image_area) ==
    LET avg_ndvi == Mean2D(ndvi.px, ndvi.h, ndvi.w)
        a == Rat(5, 2)
        biomass_per_sqm == RMul(a, RMul(avg_ndvi, avg_ndvi))
        total_biomass == RMul(biomass_per_sqm, image_area)
        total_biomass_tons == RDiv(total_biomass, IntF(1000))
    IN  Ok([biomass_per_sqm_kg |-> Round(biomass_per_sqm, 2),
            total_biomass_kg |-> Round(total_biomass, 2),
            total_biomass_tons |-> Round(total_biomass_tons, 4),
            ndvi_coefficient |-> Round(avg_ndvi, 3),
            estimation_confidence |-> "medium"])

\* Index maps of one row and two columns.
IndexMap(x, y) ==
    [h |-> 1, w |-> 2, px |-> [p \in Grid(1, 2) |-> IF p[2] = 0 THEN x ELSE y]]

IndexValues == {RZero, Rat(3, 10), Rat(3, 4), ROne}

BiomassCalls ==
    {[fn |-> "estimate_biomass", ndvi |-> IndexMap(x, y), image_area |-> area] :
        x \in IndexValues, y \in IndexValues, area \in GroundAreas \cup {IntF(1000)}}

InitEstimation ==
    /\ AppIdle
    /\ call \in Co2Calls \cup BiomassCalls
    /\ ret = None

CallCo2 ==
    /\ call.fn = "estimate_co2_sequestration"
    /\ ret = None
    /\ ret' = estimate_co2_sequestration(call.vegetation_stats, call.image_area_sqm)
    /\ UNCHANGED <<appVars, call>>

CallBiomass ==
    /\ call.fn = "estimate_biomass"
    /\ ret = None
    /\ ret' = estimate_biomass(call.ndvi, call.image_area)
    /\ UNCHANGED <<appVars, call>>

NextEstimation == CallCo2 \/ CallBiomass

SpecEstimation == InitEstimation /\ [][NextEstimation]_vars

Co2Returned == call.fn = "estimate_co2_sequestration" /\ ret # None
BiomassReturned == call.fn = "estimate_biomass" /\ ret # None

\* The estimate for the ground area of the call with another coverage and
\* density is not below the one returned.
NotBelow(coverage, density) ==
    LET other == estimate_co2_sequestration(
                     [vegetation_coverage |-> coverage, vegetation_density |-> density],
                     call.image_area_sqm).val
    IN  /\ RLe(ret.val.co2_sequestered_kg, other.co2_sequestered_kg)
        /\ RLe(ret.val.co2_sequestered_tons, other.co2_sequestered_tons)

Co2Monotone ==
    /\ \A coverage \in Coverages :
          RLe(call.vegetation_stats.vegetation_coverage, coverage) =>
              NotBelow(coverage, call.vegetation_stats.vegetation_density)
    /\ \A density \in Densities :
          RLe(call.vegetation_stats.vegetation_density, density) =>
              NotBelow(call.vegetation_stats.vegetation_coverage, density)

\* C12: for a fixed ground area, raising the coverage (density fixed) or the
\* density (coverage fixed) never lowers the reported co2_sequestered_kg or
\* co2_sequestered_tons.
C12_Co2MonotoneInCoverageAndDensity == Co2Returned => Co2Monotone

\* The same for the ground areas that are not negative.
Co2MonotoneFromZeroArea ==
    (Co2Returned /\ RLe(RZero, call.image_area_sqm)) => Co2Monotone

\* C13 as stated: the returned fields form the chain vegetated_area =
\* ground_area * coverage, effective_area = vegetated_area * density *
\* density_multiplier, co2_kg = effective_area * co2_per_sqm, and the
\* returned tons are the returned kg divided by 1000.
C13_ReturnedFieldsChain ==
    Co2Returned =>
        /\ ret.val.vegetated_area_sqm =
               RMul(call.image_area_sqm, call.vegetation_stats.vegetation_coverage)
        /\ ret.val.effective_area_sqm =
               RMul(RMul(ret.val.vegetated_area_sqm,
                         call.vegetation_stats.vegetation_density),
                    VEGETATION_DENSITY_MULTIPLIER)
        /\ ret.val.co2_sequestered_kg = RMul(ret.val.effective_area_sqm, CO2_PER_SQM)
        /\ ret.val.co2_sequestered_tons = RDiv(ret.val.co2_sequestered_kg, IntF(1000))

\* C13, amended: the chain holds between the unrounded quantities, and each
\* returned field is its quantity rounded (areas and kg to 2 decimals, tons
\* to 4): the returned tons are the rounded thousandth of the unrounded kg.
C13_ChainBeforeRounding ==
    Co2Returned =>
        LET vegetated_area == RMul(call.image_area_sqm,
                                   call.vegetation_stats.vegetation_coverage)
            effective_area == RMul(RMul(vegetated_area,
                                        call.vegetation_stats.vegetation_density),
                                   VEGETATION_DENSITY_MULTIPLIER)
            co2_kg == RMul(effective_area, CO2_PER_SQM)
            co2_tons == RDiv(co2_kg, IntF(1000))
        IN  /\ ret.kind = "ok"
            /\ ret.val.vegetated_area_sqm = Round(vegetated_area, 2)
            /\ ret.val.effective_area_sqm = Round(effective_area, 2)
            /\ ret.val.co2_sequestered_kg = Round(co2_kg, 2)
            /\ ret.val.co2_sequestered_tons = Round(co2_tons, 4)

\* An estimate whose rounding shows: 1 sqm, coverage 1/16, density 3/4 give
\* 0.028125 kg, returned as 0.03 kg and 0.0 tons.
C13_Witness ==
    /\ Co2Returned
    /\ call.image_area_sqm = ROne
    /\ call.vegetation_stats = [vegetation_coverage |-> Rat(1, 16),
                                 vegetation_density |-> Rat(3, 4)]
    /\ ret.val.vegetated_area_sqm = Rat(6, 100)
    /\ ret.val.effective_area_sqm = Rat(6, 100)
    /\ ret.val.co2_sequestered_kg = Rat(3, 100)
    /\ ret.val.co2_sequestered_tons = RZero

\* C14: estimate_co2_sequestration and estimate_biomass fail (return no
\* estimate) whenever the ground area passed to them is zero or negative.
C14_NonPositiveAreaRejected ==
    /\ (Co2Returned /\ RLe(call.image_area_sqm, RZero)) => ret.kind = "raise"
    /\ (BiomassReturned /\ RLe(call.image_area, RZero)) => ret.kind = "raise"

-----------------------------------------------------------------------------
(* Classifier stage: utils/ai_model.py.  What TensorFlow computes (the     *)
(* probability the model predicts, the smoothed enhanced index map) is an  *)
(* input of the model.                                                     *)

\* A slip: the thresholds taken inclusive, a tie going to the upper category.
analyze_vegetation_health_inclusive(vegetation_prob, ndvi) ==
    LET avg_ndvi == Mean2D(ndvi.px, ndvi.h, ndvi.w)
        health_score == FDiv(FAdd(vegetation_prob, avg_ndvi), IntF(2))
        health_category ==
            IF ~FGt(Rat(7, 10), health_score) THEN "Excellent"
            ELSE IF ~FGt(Rat(1, 2), health_score) THEN "Good"
            ELSE IF ~FGt(Rat(3, 10), health_score) THEN "Fair"
            ELSE "Poor"
    IN  Ok([health_score |-> Round(health_score, 3),
            health_category |-> health_category,
            ai_vegetation_probability |-> Round(vegetation_prob, 3),
            average_ndvi |-> Round(avg_ndvi, 3),
            confidence_level |-> IF FGt(vegetation_prob, Rat(4, 5)) THEN "high" ELSE "medium"])

\* A slip: the test for Good made before the test for Excellent.
analyze_vegetation_health_good_first(vegetation_prob, ndvi) ==
    LET avg_ndvi == Mean2D(ndvi.px, ndvi.h, ndvi.w)
        health_score == FDiv(FAdd(vegetation_prob, avg_ndvi), IntF(2))
        health_category ==
            IF FGt(health_score, Rat(1, 2)) THEN "Good"
            ELSE IF FGt(health_score, Rat(7, 10)) THEN "Excellent"
            ELSE IF FGt(health_score, Rat(3, 10)) THEN "Fair"
            ELSE "Poor"
    IN  Ok([health_score |-> Round(health_score, 3),
            health_category |-> health_category,
            ai_vegetation_probability |-> Round(vegetation_prob, 3),
            average_ndvi |-> Round(avg_ndvi, 3),
            confidence_level |-> IF FGt(vegetation_prob, Rat(4, 5)) THEN "high" ELSE "medium"])

\* analyze_vegetation_health (ai_model.py:146-178), vegetation_prob being
\* what predict_vegetation returned for the image.
analyze_vegetation_health(vegetation_prob, ndvi) ==
    LET avg_ndvi == Mean2D(ndvi.px, ndvi.h, ndvi.w)
        health_score == FDiv(FAdd(vegetation_prob, avg_ndvi), IntF(2))
        health_category ==
            IF FGt(health_score, Rat(7, 10)) THEN "Excellent"
            ELSE IF FGt(health_score, Rat(1, 2)) THEN "Good"
            ELSE IF FGt(health_score, Rat(3, 10)) THEN "Fair"
            ELSE "Poor"
    IN  Ok([health_score |-> Round(health_score, 3),
            health_category |-> health_category,
            ai_vegetation_probability |-> Round(vegetation_prob, 3),
            average_ndvi |-> Round(avg_ndvi, 3),
            confidence_level |-> IF FGt(vegetation_prob, Rat(4, 5)) THEN "high" ELSE "medium"])

\* Probabilities of the model, with some that bring the health score just
\* above or below a bound of a category (0.9008 with a mean index of 0.5
\* gives 0.7004).
Probabilities ==
    {RZero, Rat(3, 10), Rat(2, 5), Rat(1, 2), Rat(7, 10), Rat(9, 10), ROne,
     Rat(3004, 10000), Rat(5006, 10000), Rat(8992, 10000), Rat(9008, 10000)}

HealthCalls ==
    {[fn |-> "analyze_vegetation_health", vegetation_prob |-> prob, ndvi |-> IndexMap(x, y)] :
        prob \in Probabilities, x \in IndexValues, y \in IndexValues}

CallHealth ==
    /\ call.fn = "analyze_vegetation_health"
    /\ ret = None
    /\ ret' = analyze_vegetation_health(call.vegetation_prob, call.ndvi)
    /\ UNCHANGED <<appVars, call>>

HealthReturned == call.fn = "analyze_vegetation_health" /\ ret # None

\* The health score of the call: the mean of the probability and of the mean
\* of the index map.
CallHealthScore ==
    RDiv(RAdd(call.vegetation_prob, Mean2D(call.ndvi.px, call.ndvi.h, call.ndvi.w)),
         IntF(2))

\* C18: the category is Excellent for a score above 0.7, else Good above
\* 0.5, else Fair above 0.3, else Poor; a score equal to 0.7, 0.5 or 0.3 is
\* Good, Fair or Poor.
C18_HealthCategory ==
    HealthReturned =>
        /\ ret.kind = "ok"
        /\ ret.val.health_category \in {"Excellent", "Good", "Fair", "Poor"}
        /\ ret.val.health_category = "Excellent" <=> RLt(Rat(7, 10), CallHealthScore)
        /\ ret.val.health_category = "Good" <=>
               (RLt(Rat(1, 2), CallHealthScore) /\ RLe(CallHealthScore, Rat(7, 10)))
        /\ ret.val.health_category = "Fair" <=>
               (RLt(Rat(3, 10), CallHealthScore) /\ RLe(CallHealthScore, Rat(1, 2)))
        /\ ret.val.health_category = "Poor" <=> RLe(CallHealthScore, Rat(3, 10))

\* A score of exactly 0.7 (probability 0.4, index 1.0 everywhere) is Good.
C18_Witness ==
    /\ HealthReturned
    /\ call.vegetation_prob = Rat(2, 5)
    /\ call.ndvi = IndexMap(ROne, ROne)
    /\ CallHealthScore = Rat(7, 10)
    /\ ret.val.health_category = "Good"

\* C29: the health category of a record agrees with the health_score of
\* the same record: Excellent implies health_score > 0.7, Good implies
\* 0.5 < health_score <= 0.7, Fair implies 0.3 < health_score <= 0.5, Poor
\* implies health_score <= 0.3.
C29_CategoryAgreesWithReportedScore ==
    HealthReturned =>
        LET score == ret.val.health_score
            category == ret.val.health_category
        IN  /\ category = "Excellent" => RLt(Rat(7, 10), score)
            /\ category = "Good" => RLt(Rat(1, 2), score) /\ RLe(score, Rat(7, 10))
            /\ category = "Fair" => RLt(Rat(3, 10), score) /\ RLe(score, Rat(1, 2))
            /\ category = "Poor" => RLe(score, Rat(3, 10))

\* C29 as it holds: the reported score is rounded and may be equal to the
\* lower bound of its category: Excellent implies health_score >= 0.7, Good
\* implies 0.5 <= health_score <= 0.7, Fair implies 0.3 <= health_score <=
\* 0.5, Poor implies health_score <= 0.3.
C29_CategoryWithinClosedBounds ==
    HealthReturned =>
        LET score == ret.val.health_score
            category == ret.val.health_category
        IN  /\ category = "Excellent" => RLe(Rat(7, 10), score)
            /\ category = "Good" => RLe(Rat(1, 2), score) /\ RLe(score, Rat(7, 10))
            /\ category = "Fair" => RLe(Rat(3, 10), score) /\ RLe(score, Rat(1, 2))
            /\ category = "Poor" => RLe(score, Rat(3, 10))

\* A score of 0.7004: Excellent, reported as 0.7.
C29_Witness ==
    /\ HealthReturned
    /\ CallHealthScore = Rat(7004, 10000)
    /\ ret.val.health_category = "Excellent"
    /\ ret.val.health_score = Rat(7, 10)

\* np.mean(image[:, :, k]): the mean of channel k (1 for red).
ChannelMean(image, k) ==
    Mean2D([p \in Grid(image.h, image.w) |-> IntF(image.px[p][k])], image.h, image.w)

\* x / (y + 1e-8) for channel means x, y >= 0: with y = 0 it is 0 or beyond
\* every bound it is compared with; with y > 0 the 1e-8 moves the quotient
\* by less than the comparisons with 1.2, 1.1 and 1.0 can tell (a quotient
\* equal to the bound stays not above it).
RatioOfMeans(x, y) ==
    IF y = RZero THEN (IF x = RZero THEN RZero ELSE Big(Sign(x[1])))
    ELSE RDiv(x, y)

TypeVector(dense_forest, sparse_vegetation, grassland, water) ==
    [dense_forest |-> dense_forest, sparse_vegetation |-> sparse_vegetation,
     grassland |-> grassland, water |-> water]

DenseForestVector == TypeVector(Rat(4, 5), Rat(1, 5), RZero, RZero)
SparseVector == TypeVector(RZero, Rat(3, 5), Rat(2, 5), RZero)
WaterVector == TypeVector(RZero, RZero, RZero, Rat(9, 10))
GrasslandVector == TypeVector(RZero, Rat(3, 10), Rat(7, 10), RZero)

\* A slip: the water rule tried before the green/red > 1.0 rule.
detect_vegetation_types_water_first(image) ==
    LET red_mean == ChannelMean(image, 1)
        green_mean == ChannelMean(image, 2)
        blue_mean == ChannelMean(image, 3)
        green_red_ratio == RatioOfMeans(green_mean, red_mean)
        green_blue_ratio == RatioOfMeans(green_mean, blue_mean)
    IN  Ok(IF FGt(green_red_ratio, Rat(6, 5)) /\ FGt(green_blue_ratio, Rat(11, 10))
           THEN DenseForestVector
           ELSE IF RLt(red_mean, blue_mean) /\ RLt(green_mean, blue_mean)
           THEN WaterVector
           ELSE IF FGt(green_red_ratio, ROne)
           THEN SparseVector
           ELSE GrasslandVector)

\* detect_vegetation_types (ai_model.py:239-278).
detect_vegetation_types(image) ==
    LET red_mean == ChannelMean(image, 1)
        green_mean == ChannelMean(image, 2)
        blue_mean == ChannelMean(image, 3)
        green_red_ratio == RatioOfMeans(green_mean, red_mean)
        green_blue_ratio == RatioOfMeans(green_mean, blue_mean)
    IN  Ok(IF FGt(green_red_ratio, Rat(6, 5)) /\ FGt(green_blue_ratio, Rat(11, 10))
           THEN DenseForestVector
           ELSE IF FGt(green_red_ratio, ROne)
           THEN SparseVector
           ELSE IF RLt(red_mean, blue_mean) /\ RLt(green_mean, blue_mean)
           THEN WaterVector
           ELSE GrasslandVector)

\* Images of one row and two pixels in colours <<red, green, blue>> that
\* match every combination of rules the rules allow.
TypeColours ==
    {<<0, 0, 0>>, <<10, 20, 30>>, <<100, 120, 100>>, <<100, 130, 100>>,
     <<50, 50, 200>>, <<200, 50, 50>>, <<100, 100, 100>>, <<0, 40, 0>>, <<40, 50, 60>>}

TypeCalls ==
    {[fn |-> "detect_vegetation_types", image |-> Checkerboard(1, 2, p, q)] :
        p \in TypeColours, q \in TypeColours}

CallTypes ==
    /\ call.fn = "detect_vegetation_types"
    /\ ret = None
    /\ ret' = detect_vegetation_types(call.image)
    /\ UNCHANGED <<appVars, call>>

TypesReturned == call.fn = "detect_vegetation_types" /\ ret # None

\* The rules of detect_vegetation_types on the channel sums of the image of
\* the call (the means compare as the sums do).
ChannelSum(k) == call.image.px[<<0, 0>>][k] + call.image.px[<<0, 1>>][k]
Rule1 == 5 * ChannelSum(2) > 6 * ChannelSum(1) /\ 10 * ChannelSum(2) > 11 * ChannelSum(3)
Rule2 == ChannelSum(2) > ChannelSum(1)
Rule3 == ChannelSum(3) > ChannelSum(1) /\ ChannelSum(3) > ChannelSum(2)

\* C19: the first rule that matches alone gives the vector: (1) green/red >
\* 1.2 and green/blue > 1.1, (2) green/red > 1.0, (3) blue mean above the red
\* and the green mean, (4) otherwise; an all-zero image is classified by rule
\* 4 and nothing raises.
C19_FirstMatchingRule ==
    TypesReturned =>
        /\ ret.kind = "ok"
        /\ Rule1 => ret.val = DenseForestVector
        /\ (~Rule1 /\ Rule2) => ret.val = SparseVector
        /\ (~Rule1 /\ ~Rule2 /\ Rule3) => ret.val = WaterVector
        /\ (~Rule1 /\ ~Rule2 /\ ~Rule3) => ret.val = GrasslandVector
        /\ (\A k \in 1..3 : ChannelSum(k) = 0) => ret.val = GrasslandVector

\* An image matching rules 2 and 3 (green above red, blue above both) gets
\* the vector of rule 2.
C19_Witness ==
    /\ TypesReturned
    /\ call.image = Checkerboard(1, 2, <<10, 20, 30>>, <<10, 20, 30>>)
    /\ ~Rule1 /\ Rule2 /\ Rule3
    /\ ret.val = SparseVector

\* The all-zero image is classified.
AllZeroClassified ==
    /\ TypesReturned
    /\ call.image = Checkerboard(1, 2, <<0, 0, 0>>, <<0, 0, 0>>)
    /\ ret = Ok(GrasslandVector)

TypeNames == {"dense_forest", "sparse_vegetation", "grassland", "water"}

\* C26: the vegetation-type distribution of every image is a probability
\* vector over dense_forest, sparse_vegetation, grassland and water: each
\* value lies in [0, 1] and the four sum to 1.0, whichever rule fires.
C26_TypesSumToOne ==
    TypesReturned =>
        /\ DOMAIN ret.val = TypeNames
        /\ \A t \in TypeNames : RLe(RZero, ret.val[t]) /\ RLe(ret.val[t], ROne)
        /\ RAdd(RAdd(ret.val.dense_forest, ret.val.sparse_vegetation),
                RAdd(ret.val.grassland, ret.val.water)) = ROne

\* What holds: the values lie in [0, 1], and they sum to 1.0 unless the
\* water rule fired, when they sum to 0.9.
TypesSumToOneUnlessWater ==
    TypesReturned =>
        /\ \A t \in TypeNames : RLe(RZero, ret.val[t]) /\ RLe(ret.val[t], ROne)
        /\ RAdd(RAdd(ret.val.dense_forest, ret.val.sparse_vegetation),
                RAdd(ret.val.grassland, ret.val.water))
              = IF Rule1 \/ Rule2 \/ ~Rule3 THEN ROne ELSE Rat(9, 10)

CONFIDENCE_THRESHOLD == <<7, 10>>

\* load_model (ai_model.py:19-39) with _create_default_model (41-69), by
\* what the model file is ("missing", "loads", "corrupt") and whether the
\* default model can be built: the value returned, or the exception.
load_model(model) ==
    IF model.model_file = "loads" THEN Ok(TRUE)
    ELSE IF model.default_model = "fails" THEN Raise("create_default_model")
    ELSE Ok(model.model_file = "missing")

\* segment_vegetation with the comparison of line 119 taken as >=.
segment_vegetation_inclusive(image, vegetation_prob) ==
    LET threshold == CONFIDENCE_THRESHOLD
        confident == IF ~FGt(threshold, vegetation_prob) THEN Grid(image.h, image.w) ELSE {}
        closed == morphologyEx(confident, "MORPH_CLOSE", image.h, image.w)
        segmentation_mask == morphologyEx(closed, "MORPH_OPEN", image.h, image.w)
        total_pixels == image.h * image.w
        vegetation_pixels == Cardinality(segmentation_mask)
    IN  Ok([vegetation_probability |-> Round(vegetation_prob, 3),
            vegetation_coverage |-> FDiv(IntF(vegetation_pixels), IntF(total_pixels)),
            vegetation_pixels |-> vegetation_pixels,
            total_pixels |-> total_pixels,
            confidence_threshold |-> threshold])

\* segment_vegetation (ai_model.py:111-144): the confidence map holds the
\* predicted probability at every pixel.
segment_vegetation(image, vegetation_prob) ==
    LET threshold == CONFIDENCE_THRESHOLD
        confident == IF FGt(vegetation_prob, threshold) THEN Grid(image.h, image.w) ELSE {}
        closed == morphologyEx(confident, "MORPH_CLOSE", image.h, image.w)
        segmentation_mask == morphologyEx(closed, "MORPH_OPEN", image.h, image.w)
        total_pixels == image.h * image.w
        vegetation_pixels == Cardinality(segmentation_mask)
    IN  Ok([vegetation_probability |-> Round(vegetation_prob, 3),
            vegetation_coverage |-> FDiv(IntF(vegetation_pixels), IntF(total_pixels)),
            vegetation_pixels |-> vegetation_pixels,
            total_pixels |-> total_pixels,
            confidence_threshold |-> threshold])

\* process_with_ai (ai_model.py:313-349) on an image with its metadata dict:
\* `model` is the state of the model file, vegetation_prob and enhanced_ndvi
\* what the model and enhance_ndvi_calculation give for the image.  (The
\* ndvi_std entry of the result is left out.)
process_with_ai_results(model, vegetation_prob, enhanced_ndvi, image, metadata) ==
    IF load_model(model).kind = "raise" THEN Raise(load_model(model).exc)
    ELSE LET image_area == IF "image_area" \in DOMAIN metadata
                           THEN metadata.image_area ELSE IntF(1000)
         IN  Ok([enhanced_ndvi |->
                    [average_ndvi |-> Round(Mean2D(enhanced_ndvi.px, enhanced_ndvi.h,
                                                   enhanced_ndvi.w), 3)],
                 ai_segmentation |-> segment_vegetation(image, vegetation_prob).val,
                 vegetation_health |->
                    analyze_vegetation_health(vegetation_prob, enhanced_ndvi).val,
                 vegetation_types |-> detect_vegetation_types(image).val,
                 biomass_estimation |-> estimate_biomass(enhanced_ndvi, image_area).val,
                 processing_method |-> "ai_enhanced"])

\* The metadata of a request: the flight fields, and an image_area entry
\* only when the caller put one in.
FlightMetadata ==
    {[altitude |-> IntF(a), image_resolution |-> [width |-> IntF(1920), height |-> IntF(1080)]] :
        a \in {50, 100}}

Metadatas ==
    FlightMetadata
    \cup {[altitude |-> m.altitude, image_resolution |-> m.image_resolution,
           image_area |-> Rat(497025, 196)] : m \in FlightMetadata}

Models == [model_file : {"missing", "loads", "corrupt"}, default_model : {"ok", "fails"}]

ProcessCalls ==
    {[fn |-> "process_with_ai", model |-> model, vegetation_prob |-> prob,
      enhanced_ndvi |-> IndexMap(x, ROne),
      image |-> Checkerboard(1, 2, <<100, 130, 100>>, <<100, 130, 100>>),
      metadata |-> metadata] :
        model \in Models, prob \in {Rat(3, 10), Rat(9, 10)}, x \in {Rat(3, 10), ROne},
        metadata \in Metadatas}

CallProcess ==
    /\ call.fn = "process_with_ai"
    /\ ret = None
    /\ ret' = process_with_ai_results(call.model, call.vegetation_prob, call.enhanced_ndvi,
                                      call.image, call.metadata)
    /\ UNCHANGED <<appVars, call>>

ProcessReturned == call.fn = "process_with_ai" /\ ret # None

\* process_drone_image, lines 264-272: the ground area of the image from
\* its flight metadata, the one its CO2 estimate uses.
GeometryArea(metadata) ==
    calculate_image_area(metadata.altitude, IntF(35), Rat(47, 2),
                         metadata.image_resolution.width,
                         metadata.image_resolution.height).val

\* C15: the biomass estimate of an image is 2.5 * mean_index^2 per sqm,
\* times the ground area the geometry estimator computes from the flight
\* metadata of the image, and a thousandth of that in tons.
C15_BiomassOverGeometryArea ==
    (ProcessReturned /\ ret.kind = "ok") =>
        ret.val.biomass_estimation =
            estimate_biomass(call.enhanced_ndvi, GeometryArea(call.metadata)).val

\* What holds: the area is the image_area entry of the metadata, 1000 sqm
\* without one.
BiomassOverMetadataArea ==
    (ProcessReturned /\ ret.kind = "ok") =>
        ret.val.biomass_estimation =
            estimate_biomass(call.enhanced_ndvi,
                             IF "image_area" \in DOMAIN call.metadata
                             THEN call.metadata.image_area ELSE IntF(1000)).val

\* C20: when loading the model file or building the model fails,
\* process_with_ai does not raise and returns a result for the image.
C20_ModelFailureDegrades ==
    (ProcessReturned /\ call.model.model_file # "loads") => ret.kind = "ok"

\* What holds: a model file that is missing or does not load is replaced by
\* the default model.
DefaultModelStandsIn ==
    (ProcessReturned /\ call.model.default_model = "ok") => ret.kind = "ok"

\* Images of several shapes, smaller and larger than the 5x5 kernel, with
\* the probability the model predicts for them.
SegmentDims == {<<1, 1>>, <<1, 4>>, <<2, 2>>, <<3, 7>>, <<5, 5>>, <<6, 9>>}

SegmentCalls ==
    {[fn |-> "segment_vegetation",
      image |-> Checkerboard(d[1], d[2], <<100, 130, 100>>, <<30, 60, 200>>),
      vegetation_prob |-> prob] :
        d \in SegmentDims, prob \in Probabilities \cup {Rat(699, 1000), Rat(701, 1000)}}

CallSegment ==
    /\ call.fn = "segment_vegetation"
    /\ ret = None
    /\ ret' = segment_vegetation(call.image, call.vegetation_prob)
    /\ UNCHANGED <<appVars, call>>

SegmentReturned == call.fn = "segment_vegetation" /\ ret # None

\* C25: the fused mask is all or nothing: vegetation_coverage is 1 and
\* vegetation_pixels = total_pixels when the predicted probability is
\* strictly greater than CONFIDENCE_THRESHOLD, and both are 0 otherwise, a
\* probability equal to the threshold included; the closing and the opening
\* change nothing of it, whatever the shape of the image.
C25_AllOrNothing ==
    SegmentReturned =>
        IF RLt(CONFIDENCE_THRESHOLD, call.vegetation_prob)
        THEN /\ ret.val.vegetation_coverage = ROne
             /\ ret.val.vegetation_pixels = ret.val.total_pixels
        ELSE /\ ret.val.vegetation_coverage = RZero
             /\ ret.val.vegetation_pixels = 0

C25_Witness ==
    /\ SegmentReturned
    /\ call.vegetation_prob = CONFIDENCE_THRESHOLD
    /\ call.image.h = 3 /\ call.image.w = 7
    /\ ret.val.vegetation_pixels = 0
    /\ ret.val.total_pixels = 21

\* The other side: just above the threshold, on an image smaller than the
\* kernel.
AllSegmentedAboveThreshold ==
    /\ SegmentReturned
    /\ call.vegetation_prob = Rat(701, 1000)
    /\ call.image.h = 2 /\ call.image.w = 2
    /\ ret.val.vegetation_pixels = 4

InitAi ==
    /\ AppIdle
    /\ call \in HealthCalls \cup TypeCalls \cup ProcessCalls \cup SegmentCalls
    /\ ret = None

NextAi == CallHealth \/ CallTypes \/ CallProcess \/ CallSegment

SpecAi == InitAi /\ [][NextAi]_vars

-----------------------------------------------------------------------------
(* Ledger client: BlockchainClient._calculate_quality_score.               *)

\* The texts of the model that contain 'ai_enhanced'.
TextsWithAiEnhanced == {"ai_enhanced", "uploads/ai_enhanced.png", "ai_enhanced_survey"}

\* 'ai_enhanced' in str(analysis_results): the text of the whole dict holds it
\* when any key or value of it does.
MentionsAiEnhanced(analysis_results) ==
    \/ /\ "ai_analysis" \in DOMAIN analysis_results
       /\ analysis_results.ai_analysis.processing_method \in TextsWithAiEnhanced
    \/ analysis_results.image_analysis.image_path \in TextsWithAiEnhanced
    \/ analysis_results.metadata.drone_id \in TextsWithAiEnhanced

RMin(a, b) == IF RLe(a, b) THEN a ELSE b

\* _calculate_quality_score (blockchain_client.py:222-251); a missing key
\* raises KeyError, which the except clause answers with 0.8.
calculate_quality_score(analysis_results) ==
    IF "vegetation_analysis" \notin DOMAIN analysis_results THEN Rat(4, 5)
    ELSE LET vegetation_coverage == analysis_results.vegetation_analysis.vegetation_coverage
             avg_ndvi == analysis_results.image_analysis.average_ndvi
             base == Rat(4, 5)
             covered == IF FGt(vegetation_coverage, Rat(1, 2)) THEN RAdd(base, Rat(1, 10))
                        ELSE IF FGt(vegetation_coverage, Rat(1, 5)) THEN RAdd(base, Rat(1, 20))
                        ELSE base
             indexed == IF FGt(avg_ndvi, Rat(3, 5)) THEN RAdd(covered, Rat(1, 10))
                        ELSE IF FGt(avg_ndvi, Rat(2, 5)) THEN RAdd(covered, Rat(1, 20))
                        ELSE covered
             score == IF MentionsAiEnhanced(analysis_results)
                      THEN RAdd(indexed, Rat(1, 10)) ELSE indexed
         IN  RMin(score, ROne)

\* Results as process_drone_image returns them (classical only), as the
\* handlers combine them with the classifier's, and one without its
\* vegetation_analysis entry.
ClassicalResult(coverage, ndvi, path, drone) ==
    [image_analysis |-> [image_path |-> path, average_ndvi |-> ndvi],
     vegetation_analysis |-> [vegetation_coverage |-> coverage],
     metadata |-> [drone_id |-> drone]]

CombinedResult(coverage, ndvi, path, drone) ==
    [image_analysis |-> [image_path |-> path, average_ndvi |-> ndvi],
     vegetation_analysis |-> [vegetation_coverage |-> coverage],
     metadata |-> [drone_id |-> drone],
     ai_analysis |-> [processing_method |-> "ai_enhanced"],
     processing_method |-> "opencv_tensorflow_combined"]

PartialResult(ndvi, path, drone) ==
    [image_analysis |-> [image_path |-> path, average_ndvi |-> ndvi],
     metadata |-> [drone_id |-> drone]]

QualityCoverages == {RZero, Rat(1, 5), Rat(1, 4), Rat(1, 2), Rat(3, 4), ROne}
QualityIndexes == {RZero, Rat(2, 5), Rat(1, 2), Rat(3, 5), Rat(4, 5)}
ImagePaths == {"uploads/field.png", "uploads/ai_enhanced.png"}
DroneIds == {"DRONE_1", "ai_enhanced_survey"}

QualityResults ==
    {ClassicalResult(c, n, path, drone) :
        c \in QualityCoverages, n \in QualityIndexes, path \in ImagePaths, drone \in DroneIds}
    \cup {CombinedResult(c, n, path, drone) :
        c \in QualityCoverages, n \in QualityIndexes, path \in ImagePaths, drone \in DroneIds}
    \cup {PartialResult(n, path, drone) :
        n \in QualityIndexes, path \in ImagePaths, drone \in DroneIds}

InitQuality ==
    /\ AppIdle
    /\ call \in [fn : {"calculate_quality_score"}, analysis_results : QualityResults]
    /\ ret = None

CallQuality ==
    /\ call.fn = "calculate_quality_score"
    /\ ret = None
    /\ ret' = Ok(calculate_quality_score(call.analysis_results))
    /\ UNCHANGED <<appVars, call>>

NextQuality == CallQuality

SpecQuality == InitQuality /\ [][NextQuality]_vars

\* The score of a result that has the entries the score reads was returned.
QualityReturned ==
    /\ call.fn = "calculate_quality_score"
    /\ ret # None
    /\ "vegetation_analysis" \in DOMAIN call.analysis_results

CallCoverage == call.analysis_results.vegetation_analysis.vegetation_coverage
CallIndex == call.analysis_results.image_analysis.average_ndvi

\* Classifier fusion was used for the result: it holds the classifier's
\* analysis.
FusionUsed == "ai_analysis" \in DOMAIN call.analysis_results

\* C16: the quality score is at most 1.0 whatever the coverage, the mean
\* index and the classifier usage, and exactly 0.8 when no bonus applies:
\* coverage <= 0.2, mean index <= 0.4 and classifier fusion not used.
C16_QualityCappedAndBase ==
    QualityReturned =>
        /\ RLe(ret.val, ROne)
        /\ (RLe(CallCoverage, Rat(1, 5)) /\ RLe(CallIndex, Rat(2, 5)) /\ ~FusionUsed)
              => ret.val = Rat(4, 5)

\* The capped sum min(1.0, 0.8 + c + n + f) with f = 0.1 when `fused`.
CappedSum(fused) ==
    LET c == IF RLt(Rat(1, 2), CallCoverage) THEN Rat(1, 10)
             ELSE IF RLt(Rat(1, 5), CallCoverage) THEN Rat(1, 20) ELSE RZero
        n == IF RLt(Rat(3, 5), CallIndex) THEN Rat(1, 10)
             ELSE IF RLt(Rat(2, 5), CallIndex) THEN Rat(1, 20) ELSE RZero
        f == IF fused THEN Rat(1, 10) ELSE RZero
    IN  RMin(ROne, RAdd(RAdd(RAdd(Rat(4, 5), c), n), f))

\* C17: the quality score is min(1.0, 0.8 + c + n + f) with c = 0.1 for
\* coverage > 0.5, else 0.05 for > 0.2, else 0; n = 0.1 for mean index > 0.6,
\* else 0.05 for > 0.4, else 0; f = 0.1 if and only if classifier fusion was
\* used for the result, whatever its other fields hold.
C17_QualityIsCappedSum == QualityReturned => ret.val = CappedSum(FusionUsed)

\* What holds: the score never exceeds 1.0, and f is given to every result
\* whose text holds 'ai_enhanced' anywhere.
QualityAtMostOne ==
    (call.fn = "calculate_quality_score" /\ ret # None) => RLe(ret.val, ROne)

QualityByTextMatch ==
    QualityReturned => ret.val = CappedSum(MentionsAiEnhanced(call.analysis_results))

\* A result without an entry that the score reads was scored.
PartialScored ==
    /\ call.fn = "calculate_quality_score"
    /\ ret # None
    /\ "vegetation_analysis" \notin DOMAIN call.analysis_results

\* C23: a computation that fails reports the failure to its caller and
\* returns no default number in its place: the quality-score calculation
\* on a result that lacks a required field raises.
C23_FailureReported == PartialScored => ret.kind = "raise"

\* What holds: the score of such a result is the default 0.8.
FailureScoredAsDefault == PartialScored => ret = Ok(Rat(4, 5))

-----------------------------------------------------------------------------
(* The classifier object shared by the worker threads of the server.       *)
(* ai_processor (app.py:46) is created once for the process, and its       *)
(* vegetation_model (ai_model.py:204) serves every request.  The field     *)
(* model is 0 for None and n for the n-th model object assigned to it.     *)

Threads == {1, 2}
MaxCalls == 2

ClassifierCalls == {[fn |-> "serve", model |-> m] : m \in Models}

\* A thread outside any call; site is the line load_model was called from.
ThreadIdle == [pc |-> "idle", fn |-> "", site |-> 0, calls |-> 0, predicted_with |-> 0]

\* VegetationDetectionModel.__init__ (ai_model.py:14-17), before any call.
InitClassifier ==
    /\ pc = "idle"
    /\ request = None
    /\ i = 0
    /\ batch_results = <<>>
    /\ processed_files = <<>>
    /\ trace = <<>>
    /\ given_metadata = <<>>
    /\ ledger = <<>>
    /\ response = None
    /\ retry_count = 0
    /\ wire = <<>>
    /\ call \in ClassifierCalls
    /\ ret = None
    /\ vegetation_model = [model |-> 0, is_loaded |-> FALSE]
    /\ threads = [t \in Threads |-> ThreadIdle]

classifierFrame ==
    <<pc, request, i, batch_results, processed_files, trace, given_metadata, ledger,
      response, call, ret, retry_count, wire>>

\* A thread enters process_with_ai (ai_model.py:313), whose first statement
\* is the load_model() of line 317, or predict_vegetation (line 89), whose
\* first statement is the test of line 92.
BeginCall(t) ==
    /\ threads[t].pc = "idle"
    /\ threads[t].calls < MaxCalls
    /\ \E fn \in {"process_with_ai", "predict_vegetation"} :
         threads' = [threads EXCEPT ![t].fn = fn,
                                    ![t].site = IF fn = "process_with_ai" THEN 317 ELSE 0,
                                    ![t].pc = IF fn = "process_with_ai"
                                              THEN "load_model" ELSE "is_loaded"]
    /\ UNCHANGED <<vegetation_model, classifierFrame>>

\* load_model up to its assignment of self.model (ai_model.py:31, or line
\* 63 in _create_default_model); when the default model cannot be built
\* the exception leaves the call.
LoadModel(t) ==
    /\ threads[t].pc = "load_model"
    /\ IF load_model(call.model).kind = "raise"
       THEN /\ threads' = [threads EXCEPT ![t].pc = "idle",
                                          ![t].calls = threads[t].calls + 1]
            /\ UNCHANGED vegetation_model
       ELSE /\ vegetation_model' = [vegetation_model EXCEPT !.model = vegetation_model.model + 1]
            /\ threads' = [threads EXCEPT ![t].pc = "set_loaded"]
    /\ UNCHANGED classifierFrame

\* self.is_loaded = True (ai_model.py:32 or 64), and the return to the
\* caller: process_with_ai goes on to segment_vegetation, which calls
\* predict_vegetation (line 115).
SetLoaded(t) ==
    /\ threads[t].pc = "set_loaded"
    /\ vegetation_model' = [vegetation_model EXCEPT !.is_loaded = TRUE]
    /\ threads' = [threads EXCEPT ![t].pc = IF threads[t].site = 317
                                            THEN "is_loaded" ELSE "predict"]
    /\ UNCHANGED classifierFrame

\* predict_vegetation, lines 92-93: if not self.is_loaded: self.load_model().
CheckLoaded(t) ==
    /\ threads[t].pc = "is_loaded"
    /\ threads' = [threads EXCEPT ![t].site = 93,
                                  ![t].pc = IF vegetation_model.is_loaded
                                            THEN "predict" ELSE "load_model"]
    /\ UNCHANGED <<vegetation_model, classifierFrame>>

\* predict_vegetation, line 99: self.model.predict; the rest of the call
\* does not touch the model object.
Predict(t) ==
    /\ threads[t].pc = "predict"
    /\ threads' = [threads EXCEPT ![t].predicted_with = vegetation_model.model,
                                  ![t].pc = "idle",
                                  ![t].calls = threads[t].calls + 1]
    /\ UNCHANGED <<vegetation_model, classifierFrame>>

NextClassifier ==
    \E t \in Threads :
        BeginCall(t) \/ LoadModel(t) \/ SetLoaded(t) \/ CheckLoaded(t) \/ Predict(t)

SpecClassifier == InitClassifier /\ [][NextClassifier]_vars

\* C21: for one classifier object the model is initialised at most once,
\* over every sequence and interleaving of process_with_ai and
\* predict_vegetation calls: self.model is assigned at most one model
\* object, so a model that has been loaded is never replaced.
C21_ModelInitialisedOnce == vegetation_model.model <= 1

\* What holds: a call predicts with a model object, never with None.
PredictsWithAModel ==
    \A t \in Threads : threads[t].pc = "predict" => vegetation_model.model >= 1

-----------------------------------------------------------------------------
(* BlockchainClient._make_request: one HTTP request with its retries.  The *)
(* recursive call of line 61 is a further round of the same steps with     *)
(* retry_count + 1; wire records what the call does at the network and at  *)
(* the clock.                                                              *)

MaxRetries == 3

\* method.upper() of lines 43-47.
Upper(method) ==
    CASE method \in {"get", "GET"} -> "GET"
      [] method \in {"post", "POST"} -> "POST"
      [] method \in {"put", "PUT"} -> "PUT"
      [] method \in {"delete", "DELETE"} -> "DELETE"
      [] OTHER -> method

Supported(method) == Upper(method) \in {"GET", "POST", "PUT"}

\* Line 58 with the comparison taken as <=.
may_retry_inclusive(count, max_retries) == count <= max_retries

\* Line 58: if retry_count < self.max_retries.
may_retry(count, max_retries) == count < max_retries

\* Calls: the method, and the client's max_retries and retry_delay as
\* Config gives them (3 and 5 unless the environment says otherwise).
RequestCalls ==
    [fn : {"_make_request"}, method : {"GET", "post", "PUT", "DELETE", "patch"},
     max_retries : 0..MaxRetries, retry_delay : {0, 1, 5}]

InitRequest ==
    /\ pc = "idle"
    /\ request = None
    /\ i = 0
    /\ batch_results = <<>>
    /\ processed_files = <<>>
    /\ trace = <<>>
    /\ given_metadata = <<>>
    /\ ledger = <<>>
    /\ response = None
    /\ vegetation_model = [model |-> 0, is_loaded |-> FALSE]
    /\ threads = <<>>
    /\ call \in RequestCalls
    /\ ret = None
    /\ retry_count = 0
    /\ wire = <<>>

requestFrame ==
    <<pc, request, i, batch_results, processed_files, trace, given_metadata, ledger,
      response, vegetation_model, threads, call>>

Http(method) == [event |-> "http", method |-> method]
Sleep(seconds) == [event |-> "sleep", seconds |-> seconds]

\* Lines 49-50 and 65-67: the ValueError is logged and raised again.
UnsupportedMethod ==
    /\ call.fn = "_make_request"
    /\ ret = None
    /\ ~Supported(call.method)
    /\ ret' = Raise("ValueError")
    /\ UNCHANGED <<requestFrame, retry_count, wire>>

\* Lines 43-53: the attempt succeeds and its JSON body is returned.
AttemptSucceeds ==
    /\ call.fn = "_make_request"
    /\ ret = None
    /\ Supported(call.method)
    /\ wire' = Append(wire, Http(Upper(call.method)))
    /\ ret' = Ok("json")
    /\ UNCHANGED <<requestFrame, retry_count>>

\* Lines 55-61: the attempt raises a RequestException (no connection, a
\* timeout, an error status); the call sleeps and calls itself.
AttemptFailsAndRetries ==
    /\ call.fn = "_make_request"
    /\ ret = None
    /\ Supported(call.method)
    /\ may_retry(retry_count, call.max_retries)
    /\ wire' = wire \o <<Http(Upper(call.method)), Sleep(call.retry_delay * (retry_count + 1))>>
    /\ retry_count' = retry_count + 1
    /\ UNCHANGED <<requestFrame, ret>>

\* Lines 55-63: the attempt raises a RequestException with no retry left.
AttemptFailsAndGivesUp ==
    /\ call.fn = "_make_request"
    /\ ret = None
    /\ Supported(call.method)
    /\ ~may_retry(retry_count, call.max_retries)
    /\ wire' = Append(wire, Http(Upper(call.method)))
    /\ ret' = Raise("Max retries exceeded")
    /\ UNCHANGED <<requestFrame, retry_count>>

NextRequest ==
    \/ UnsupportedMethod
    \/ AttemptSucceeds
    \/ AttemptFailsAndRetries
    \/ AttemptFailsAndGivesUp

\* The thread that runs the call keeps running: every attempt ends, by its
\* answer or by the timeout of the request, and every sleep ends.
SpecRequest == InitRequest /\ [][NextRequest]_vars /\ WF_vars(NextRequest)

Attempts == Cardinality({k \in 1..Len(wire) : wire[k].event = "http"})

\* The attempts and the waits so far: attempts at the odd places, and
\* after the k-th attempt a wait of retry_delay * k.
WireInOrder ==
    \A k \in 1..Len(wire) :
        IF k % 2 = 1 THEN wire[k] = Http(Upper(call.method))
        ELSE wire[k] = Sleep(call.retry_delay * (k \div 2))

RequestSafe ==
    /\ WireInOrder
    /\ Attempts <= call.max_retries + 1
    /\ ~Supported(call.method) => wire = <<>> /\ ret \in {None, Raise("ValueError")}
    /\ ret = Raise("Max retries exceeded") =>
          Attempts = call.max_retries + 1 /\ Len(wire) = 2 * call.max_retries + 1
    /\ ret.kind = "ok" => wire # <<>> /\ wire[Len(wire)].event = "http"
    /\ ret = None => Len(wire) = 2 * retry_count

\* C28: _make_request always terminates.  When every attempt fails it makes
\* exactly max_retries + 1 HTTP attempts, the k-th retry after a wait of
\* retry_delay * k, and then raises; an attempt that succeeds returns with
\* no further attempt; an unsupported method raises with no attempt made.
C28_RequestTerminates ==
    /\ []RequestSafe
    /\ [][ret # None => wire' = wire /\ ret' = ret]_vars
    /\ <>(ret # None)

C28_Witness ==
    /\ ret = Raise("Max retries exceeded")
    /\ call.max_retries = MaxRetries
    /\ call.retry_delay = 5
    /\ Attempts = MaxRetries + 1
    /\ wire[Len(wire) - 1] = Sleep(5 * MaxRetries)

\* The other cases of C28: a success on the second attempt, and a method
\* that is not supported.
SecondAttemptSucceeded ==
    /\ ret.kind = "ok"
    /\ Attempts = 2
    /\ call.max_retries = MaxRetries

UnsupportedRaised ==
    /\ ret = Raise("ValueError")
    /\ call.method = "DELETE"

-----------------------------------------------------------------------------
(* ImageProcessor.resize_image: the target size of the resize.             *)

\* int(x) of a float x >= 0.
int(x) == x[1] \div x[2]

\* resize_image, lines 46-56: <<new_width, new_height>> for an image of
\* w x h pixels and the box width x height.
target_size(w, h, width, height) ==
    LET aspect_ratio == FDiv(IntF(w), IntF(h))
    IN  IF FGt(FDiv(IntF(width), IntF(height)), aspect_ratio)
        THEN <<int(RMul(IntF(height), aspect_ratio)), height>>
        ELSE <<width, int(RDiv(IntF(width), aspect_ratio))>>

\* resize_image (image_processor.py:37-64): cv2.resize raises on a target
\* with a side of 0, and the exception is logged and raised again.
resize_image(w, h, width, height) ==
    LET size == target_size(w, h, width, height)
    IN  IF size[1] = 0 \/ size[2] = 0 THEN Raise("cv2.error")
        ELSE Ok([width |-> size[1], height |-> size[2]])

\* Calls: images and boxes of 1 to MaxSide pixels each way.
MaxSide == 6

ResizeCalls ==
    [fn : {"resize_image"}, w : 1..MaxSide, h : 1..MaxSide,
     width : 1..MaxSide, height : 1..MaxSide]

InitResize ==
    /\ AppIdle
    /\ call \in ResizeCalls
    /\ ret = None

CallResize ==
    /\ call.fn = "resize_image"
    /\ ret = None
    /\ ret' = resize_image(call.w, call.h, call.width, call.height)
    /\ UNCHANGED <<appVars, call>>

NextResize == CallResize

SpecResize == InitResize /\ [][NextResize]_vars

ResizeReturned == call.fn = "resize_image" /\ ret # None

\* C30: for an image of at least 1 x 1 pixels and a positive box, the
\* target size is at least 1 and at most the box each way, with one side
\* equal to the side of the box, so the resize never gets a target with a
\* side of 0.
C30_TargetWithinBox ==
    ResizeReturned =>
        /\ ret.kind = "ok"
        /\ ret.val.width \in 1..call.width
        /\ ret.val.height \in 1..call.height
        /\ ret.val.width = call.width \/ ret.val.height = call.height

\* What holds: the target is at most the box each way with one side equal
\* to the side of the box, and the other side is 0 exactly when the image
\* is more than `box side` times as long one way as the other.
TargetWithinBoxOrEmpty ==
    ResizeReturned =>
        LET size == target_size(call.w, call.h, call.width, call.height)
        IN  /\ size[1] \in 0..call.width
            /\ size[2] \in 0..call.height
            /\ size[1] = call.width \/ size[2] = call.height
            /\ size[1] = 0 <=> call.height * call.w < call.h
            /\ size[2] = 0 <=> call.width * call.h < call.w
            /\ ret.kind = "raise" <=> (size[1] = 0 \/ size[2] = 0)

\* An image of 1 x 3 pixels (w x h) and a box of 2 x 2.
NarrowImageRefused ==
    /\ ResizeReturned
    /\ call.w = 1 /\ call.h = 3 /\ call.width = 2 /\ call.height = 2
    /\ ret = Raise("cv2.error")

-----------------------------------------------------------------------------
(* The request handlers of app.py and the per-image pipeline.              *)

ALLOWED_EXTENSIONS == {"png", "jpg", "jpeg", "tiff", "tif"}

REQUIRED_METADATA ==
    {"latitude", "longitude", "altitude", "timestamp", "drone_id", "camera_model",
     "image_resolution"}

SAVE_PROCESSED_IMAGES == TRUE

\* An uploaded file: whether it has a filename, its extension, and the step of
\* the pipeline that raises on its content ("load_image" for a corrupt file),
\* "none" when every component succeeds on it.
FailPoints ==
    {"none", "load_image", "resize_image", "calculate_ndvi", "detect_vegetation",
     "estimate_co2_sequestration", "create_visualization", "segment_vegetation"}

\* What detect_vegetation finds in an upload that loads: bare ground, or
\* a stand of vegetation over a third of the image or over all of it.
Bare == [vegetation_coverage |-> RZero, vegetation_density |-> RZero]
Contents ==
    {Bare,
     [vegetation_coverage |-> Rat(1, 3), vegetation_density |-> Rat(3, 4)],
     [vegetation_coverage |-> ROne, vegetation_density |-> Rat(1, 2)]}

Uploads ==
    {[name |-> "", ext |-> "", failAt |-> "none", content |-> Bare],
     [name |-> "named", ext |-> "txt", failAt |-> "none", content |-> Bare]}
    \cup {[name |-> "named", ext |-> "png", failAt |-> f, content |-> Bare] : f \in FailPoints}
    \cup {[name |-> "named", ext |-> "png", failAt |-> "none", content |-> c] : c \in Contents}

allowed_file(file) == file.name # "" /\ file.ext \in ALLOWED_EXTENSIONS

\* Metadata values by Python type: a form field is a str, the batch defaults
\* are numbers and a dict.
Str == [t |-> "str"]
Num(x) == [t |-> "num", v |-> x]
Resolution(width, height) == [t |-> "dict", width |-> IntF(width), height |-> IntF(height)]

\* app.py:125-127: every required field read from the form (None when absent).
FormMetadata(form) ==
    [f \in REQUIRED_METADATA |-> IF f \in form THEN Str ELSE [t |-> "none"]]

\* app.py:239-247: batch_metadata holds batch_id, project_id, drone_id and
\* timestamp only, so the other fields take the defaults.
BatchMetadata ==
    [f \in REQUIRED_METADATA |->
        CASE f = "latitude" -> Num(IntF(0))
          [] f = "longitude" -> Num(IntF(0))
          [] f = "altitude" -> Num(IntF(100))
          [] f = "image_resolution" -> Resolution(1920, 1080)
          [] OTHER -> Str]

\* validate_metadata without the test for None of line 60.
validate_metadata_present_only(metadata) ==
    \A f \in REQUIRED_METADATA : f \in DOMAIN metadata

\* validate_metadata (app.py:54-66): whether no required field is missing.
validate_metadata(metadata) ==
    \A f \in REQUIRED_METADATA : f \in DOMAIN metadata /\ metadata[f].t # "none"

Range(seq) == {seq[k] : k \in 1..Len(seq)}

\* The steps of seq run before the one that raises on this file.
RECURSIVE Completed(_, _)
Completed(seq, failAt) ==
    IF seq = <<>> \/ Head(seq) = failAt THEN <<>>
    ELSE <<Head(seq)>> \o Completed(Tail(seq), failAt)

\* The keys of results['image_analysis'] (image_processor.py:288-296).
ImageAnalysisKeys == {"image_path", "image_dimensions", "average_ndvi", "visualization_path"}

\* ImageProcessor.process_drone_image: the steps completed, and the result
\* dict or the exception.
process_drone_image(file, metadata) ==
    LET classical == <<"load_image", "resize_image", "calculate_ndvi", "detect_vegetation">>
        final == <<"estimate_co2_sequestration">>
                 \o (IF SAVE_PROCESSED_IMAGES THEN <<"create_visualization">> ELSE <<>>)
        resolution == metadata["image_resolution"]
        altitude == metadata["altitude"]
    IN  IF file.failAt \in Range(classical)
        THEN [kind |-> "raise", exc |-> file.failAt, steps |-> Completed(classical, file.failAt)]
        ELSE IF resolution.t # "dict"
        THEN [kind |-> "raise", exc |-> "AttributeError", steps |-> classical]
        ELSE IF altitude.t # "num"
        THEN [kind |-> "raise", exc |-> "TypeError", steps |-> classical]
        ELSE LET image_area == calculate_image_area(altitude.v, IntF(35), Rat(47, 2),
                                                    resolution.width, resolution.height)
             IN  IF image_area.kind = "raise"
                 THEN [kind |-> "raise", exc |-> image_area.exc, steps |-> classical]
                 ELSE IF file.failAt \in Range(final)
                 THEN [kind |-> "raise", exc |-> file.failAt,
                       steps |-> classical \o <<"calculate_image_area">>
                                 \o Completed(final, file.failAt)]
                 ELSE [kind |-> "ok",
                       steps |-> classical \o <<"calculate_image_area">> \o final,
                       keys |-> {"image_analysis", "vegetation_analysis", "co2_estimation",
                                 "metadata", "processing_timestamp"},
                       image_analysis |-> ImageAnalysisKeys,
                       vegetation_analysis |-> file.content,
                       image_area |-> image_area.val]

\* The co2_estimation entry of a result of process_drone_image (line 275),
\* computed where the entry is read.
co2_estimation(opencv_results) ==
    estimate_co2_sequestration(opencv_results.vegetation_analysis,
                               opencv_results.image_area).val

\* TensorFlowProcessor.process_with_ai.
process_with_ai(file) ==
    LET steps == <<"load_model", "enhance_ndvi_calculation", "segment_vegetation",
                   "analyze_vegetation_health", "detect_vegetation_types",
                   "estimate_biomass">>
    IN  IF file.failAt \in Range(steps)
        THEN [kind |-> "raise", exc |-> file.failAt, steps |-> Completed(steps, file.failAt)]
        ELSE [kind |-> "ok", steps |-> steps, processing_method |-> "ai_enhanced"]

\* Both handlers, from the saving of the upload to the combined result
\* (app.py:137-159 and 228-260): process_drone_image, then the read of
\* opencv_results['image_analysis']['image'], then process_with_ai.
AnalyzeOne(file, metadata, method) ==
    LET opencv_results == process_drone_image(file, metadata)
        ai_results == process_with_ai(file)
    IN  IF opencv_results.kind = "raise"
        THEN [kind |-> "raise", exc |-> opencv_results.exc,
              steps |-> <<"save">> \o opencv_results.steps]
        ELSE IF "image" \notin opencv_results.image_analysis
        THEN [kind |-> "raise", exc |-> "KeyError",
              steps |-> <<"save">> \o opencv_results.steps]
        ELSE IF ai_results.kind = "raise"
        THEN [kind |-> "raise", exc |-> ai_results.exc,
              steps |-> <<"save">> \o opencv_results.steps \o ai_results.steps]
        ELSE [kind |-> "ok",
              steps |-> <<"save">> \o opencv_results.steps \o ai_results.steps
                        \o <<"combine_results">>,
              vegetation_analysis |-> opencv_results.vegetation_analysis,
              co2_estimation |-> co2_estimation(opencv_results),
              processing_method |-> method]

\* Python's sum over a sequence of floats.
RECURSIVE sum(_)
sum(values) == IF values = <<>> THEN RZero ELSE RAdd(Head(values), sum(Tail(values)))

Reply(status, error) == [status |-> status, success |-> status = 200, error |-> error]

MaxFiles == 3

RECURSIVE SeqsUpTo(_, _)
SeqsUpTo(S, n) ==
    IF n = 0 THEN {<<>>}
    ELSE LET shorter == SeqsUpTo(S, n - 1)
         IN  shorter \cup {Append(q, x) : q \in {r \in shorter : Len(r) = n - 1}, x \in S}

SingleRequests ==
    [kind : {"single"}, has_image : BOOLEAN, file : Uploads,
     form : SUBSET REQUIRED_METADATA, ledger_up : BOOLEAN]

BatchRequests ==
    [kind : {"batch"}, has_images : BOOLEAN, files : SeqsUpTo(Uploads, MaxFiles),
     ledger_up : BOOLEAN]

Init ==
    /\ AppIdle
    /\ call = None
    /\ ret = None

\* analyze_drone_image (app.py:101-190), one request from start to response.
AnalyzeDroneImage ==
    /\ pc = "idle"
    /\ \E req \in SingleRequests :
         LET metadata == FormMetadata(req.form)
             result == AnalyzeOne(req.file, metadata, "opencv_tensorflow_combined")
             rejected == \/ ~req.has_image
                         \/ req.file.name = ""
                         \/ ~allowed_file(req.file)
                         \/ ~validate_metadata(metadata)
         IN  /\ request' = req
             /\ trace' = IF rejected THEN <<>> ELSE <<result.steps>>
             /\ given_metadata' = IF rejected THEN <<>> ELSE <<metadata>>
             /\ ledger' = IF ~rejected /\ result.kind = "ok" /\ req.ledger_up
                           THEN Append(ledger, [endpoint |-> "/mrv/upload", analyses |-> 1])
                           ELSE ledger
             /\ response' =
                    IF ~req.has_image THEN Reply(400, "No image file provided")
                    ELSE IF req.file.name = "" THEN Reply(400, "No image file selected")
                    ELSE IF ~allowed_file(req.file) THEN Reply(400, "File type not allowed")
                    ELSE IF ~validate_metadata(metadata)
                    THEN Reply(400, "Missing required metadata fields")
                    ELSE IF result.kind = "raise" \/ ~req.ledger_up
                    THEN Reply(500, "Internal server error during image analysis")
                    ELSE Reply(200, "")
    /\ pc' = "done"
    /\ UNCHANGED <<i, batch_results, processed_files, call, ret, libVars>>

\* analyze_batch_images up to the loop (app.py:196-220).
AnalyzeBatchBegin ==
    /\ pc = "idle"
    /\ \E req \in BatchRequests :
         LET refused == ~req.has_images \/ req.files = <<>> \/ req.files[1].name = ""
         IN  /\ request' = req
             /\ pc' = IF refused THEN "done" ELSE "loop"
             /\ response' = IF ~req.has_images THEN Reply(400, "No image files provided")
                             ELSE IF refused THEN Reply(400, "No image files selected")
                             ELSE None
             /\ i' = IF refused THEN 0 ELSE 1
             /\ trace' = IF refused THEN <<>> ELSE [k \in 1..Len(req.files) |-> <<>>]
    /\ batch_results' = <<>>
    /\ processed_files' = <<>>
    /\ UNCHANGED <<given_metadata, ledger, call, ret, libVars>>

\* One iteration of the loop (app.py:222-267): a file with a refused
\* extension is skipped, an exception is logged, and the loop goes on.
AnalyzeBatchImage ==
    /\ pc = "loop"
    /\ i <= Len(request.files)
    /\ LET file == request.files[i]
           result == AnalyzeOne(file, BatchMetadata, "batch_opencv_tensorflow")
       IN  IF ~allowed_file(file)
           THEN UNCHANGED <<batch_results, processed_files, trace, given_metadata>>
           ELSE /\ trace' = [trace EXCEPT ![i] = result.steps]
                /\ given_metadata' = Append(given_metadata, BatchMetadata)
                /\ batch_results' =
                       IF result.kind = "ok"
                       THEN Append(batch_results,
                                   [index |-> i,
                                    vegetation_analysis |-> result.vegetation_analysis,
                                    co2_estimation |-> result.co2_estimation,
                                    processing_method |-> result.processing_method])
                       ELSE batch_results
                /\ processed_files' =
                       IF result.kind = "ok" THEN Append(processed_files, i)
                       ELSE processed_files
    /\ i' = i + 1
    /\ UNCHANGED <<pc, request, ledger, response, call, ret, libVars>>

\* After the loop (app.py:269-311).
AnalyzeBatchEnd ==
    /\ pc = "loop"
    /\ i > Len(request.files)
    /\ pc' = "done"
    /\ ledger' = IF batch_results # <<>> /\ request.ledger_up
                  THEN Append(ledger, [endpoint |-> "/mrv/batch-upload",
                                       analyses |-> Len(batch_results)])
                  ELSE ledger
    /\ response' =
           IF batch_results = <<>>
           THEN Reply(400, "No images were successfully processed")
           ELSE IF ~request.ledger_up
           THEN Reply(500, "Internal server error during batch analysis")
           ELSE LET total_co2 ==
                        sum([k \in 1..Len(batch_results) |->
                                batch_results[k].co2_estimation.co2_sequestered_tons])
                    avg_vegetation_coverage ==
                        FDiv(sum([k \in 1..Len(batch_results) |->
                                     batch_results[k].vegetation_analysis.vegetation_coverage]),
                             IntF(Len(batch_results)))
                IN  [status |-> 200, success |-> TRUE, error |-> "",
                     total_images_processed |-> Len(batch_results),
                     total_images_received |-> Len(request.files),
                     processed_files |-> processed_files,
                     batch_statistics |->
                         [total_co2_sequestered_tons |-> Round(total_co2, 4),
                          average_vegetation_coverage |-> Round(avg_vegetation_coverage, 3)]]
    /\ UNCHANGED <<request, i, batch_results, processed_files, trace, given_metadata,
                   call, ret, libVars>>

Next ==
    \/ AnalyzeDroneImage
    \/ AnalyzeBatchBegin
    \/ AnalyzeBatchImage
    \/ AnalyzeBatchEnd

Spec == Init /\ [][Next]_vars

\* An upload on which nothing fails: an allowed extension, a file that loads,
\* every component succeeding on it.
Sound(file) == allowed_file(file) /\ file.failAt = "none"

\* The positions among the first n files whose upload is sound, in order.
RECURSIVE SoundUpTo(_, _)
SoundUpTo(files, n) ==
    IF n = 0 THEN <<>>
    ELSE SoundUpTo(files, n - 1) \o (IF Sound(files[n]) THEN <<n>> ELSE <<>>)

BatchLoopDone == request.kind = "batch" /\ pc = "done" /\ i > 0

\* C1: a batch of n images of which k fail yields exactly the n - k successful
\* images, in submission order (3 images with the second corrupt: 2 results).
\* (Stated as claimed; the code's results are always empty.)
C1_BatchKeepsSuccessful ==
    BatchLoopDone =>
        [k \in 1..Len(batch_results) |-> batch_results[k].index]
            = SoundUpTo(request.files, Len(request.files))

\* C2: a single image that loads, with every component succeeding and all
\* required metadata given, is answered with a success result that holds the
\* classical and the classifier-derived fields.  (Stated as claimed; the code
\* answers 500.)
C2_SingleAnalysisSucceeds ==
    (/\ request.kind = "single" /\ pc = "done"
     /\ request.has_image /\ Sound(request.file)
     /\ request.form = REQUIRED_METADATA /\ request.ledger_up) =>
        /\ response.success
        /\ "combine_results" \in Range(trace[1])

\* C3: a batch succeeds if and only if at least one submitted image was
\* processed successfully; with none, it answers an error and submits nothing
\* to the ledger.  (Stated as claimed; the code never answers success.)
C3_BatchSucceedsIffOneImage ==
    BatchLoopDone =>
        LET some == \E k \in 1..Len(request.files) : Sound(request.files[k])
        IN  /\ response.success <=> some
            /\ ~some => ledger = <<>>

\* The stage of section 4.6 that a step belongs to ("" for a step of no stage).
StageOf(step) ==
    CASE step = "load_image" -> "Loaded"
      [] step = "calculate_ndvi" -> "IndexComputed"
      [] step = "detect_vegetation" -> "Segmented"
      [] step \in {"segment_vegetation", "analyze_vegetation_health",
                   "detect_vegetation_types"} -> "Classified"
      [] step \in {"calculate_image_area", "estimate_co2_sequestration",
                   "estimate_biomass"} -> "Estimated"
      [] step = "combine_results" -> "Finished"
      [] OTHER -> ""

StageOrder == <<"Loaded", "IndexComputed", "Segmented", "Classified", "Estimated", "Finished">>

\* The stages a sequence of steps goes through, a stage named once per stay.
RECURSIVE Stages(_)
Stages(steps) ==
    IF steps = <<>> THEN <<>>
    ELSE LET before == Stages(SubSeq(steps, 1, Len(steps) - 1))
             stage == StageOf(steps[Len(steps)])
         IN  IF stage = "" \/ (before # <<>> /\ before[Len(before)] = stage)
             THEN before
             ELSE Append(before, stage)

\* C4: per image the stages occur in the order Loaded, IndexComputed,
\* Segmented, Classified, Estimated, Finished, none skipped, repeated or
\* reordered, and every estimation step runs after the classifier stage.
\* (Stated as claimed; the code estimates area and CO2 before the classifier.)
C4_StagesInOrder ==
    \A k \in DOMAIN trace :
        LET stages == Stages(trace[k])
        IN  /\ Len(stages) <= Len(StageOrder)
            /\ stages = SubSeq(StageOrder, 1, Len(stages))
            /\ \A j \in 1..Len(trace[k]) :
                  StageOf(trace[k][j]) = "Estimated" =>
                      \E c \in 1..(j - 1) : trace[k][c] = "detect_vegetation_types"

\* Every required field is an entry of the metadata and is not None.
MetadataComplete(metadata) ==
    \A f \in REQUIRED_METADATA : f \in DOMAIN metadata /\ metadata[f].t # "none"

\* C22: process_drone_image is only ever called, by either handler, with
\* metadata in which every required field is present and not None; and a
\* single-image request whose form lacks a required field is answered with
\* the validation error, with no file saved and no processing started.
C22_CompleteMetadataBeforeProcessing ==
    /\ \A k \in 1..Len(given_metadata) : MetadataComplete(given_metadata[k])
    /\ (/\ request.kind = "single" /\ pc = "done"
        /\ request.has_image /\ allowed_file(request.file)
        /\ request.form # REQUIRED_METADATA) =>
           /\ response = Reply(400, "Missing required metadata fields")
           /\ trace = <<>>
           /\ given_metadata = <<>>

C22_Witness ==
    /\ request.kind = "single" /\ pc = "done"
    /\ request.form = REQUIRED_METADATA
    /\ Len(given_metadata) = 1
    /\ Head(trace[1]) = "save"

\* The other two cases of C22: a form without its altitude, and a batch.
IncompleteFormRefused ==
    /\ request.kind = "single" /\ pc = "done"
    /\ request.has_image /\ allowed_file(request.file)
    /\ request.form = REQUIRED_METADATA \ {"altitude"}
    /\ response.status = 400

BatchProcessedWithDefaults ==
    /\ request.kind = "batch" /\ pc = "done"
    /\ Len(given_metadata) = MaxFiles

\* C27: the aggregates of a batch are a fold over exactly the successful
\* results: processed_files has the length and the order of the results,
\* and a batch with a successful image reports total_images_processed = the
\* number of successful images, total CO2 = the sum of their
\* co2_sequestered_tons and average coverage = the sum of their
\* vegetation_coverage over their number (as reported, to 4 and 3
\* decimals); the average is never taken over no result.
C27_BatchAggregatesFold ==
    BatchLoopDone =>
        LET ok == SoundUpTo(request.files, Len(request.files))
            results == [k \in 1..Len(ok) |->
                           process_drone_image(request.files[ok[k]], BatchMetadata)]
            co2 == [k \in 1..Len(ok) |-> co2_estimation(results[k]).co2_sequestered_tons]
            coverage == [k \in 1..Len(ok) |-> results[k].vegetation_analysis.vegetation_coverage]
        IN  /\ processed_files = [k \in 1..Len(batch_results) |-> batch_results[k].index]
            /\ batch_results = <<>> => "batch_statistics" \notin DOMAIN response
            /\ (ok # <<>> /\ request.ledger_up) =>
                  /\ response.status = 200
                  /\ response.total_images_processed = Len(ok)
                  /\ response.processed_files = ok
                  /\ response.batch_statistics.total_co2_sequestered_tons = Round(sum(co2), 4)
                  /\ response.batch_statistics.average_vegetation_coverage
                        = Round(FDiv(sum(coverage), IntF(Len(ok))), 3)

\* What holds: no batch is answered with aggregates, because no image ever
\* gets into batch_results.
NoBatchAggregates ==
    BatchLoopDone =>
        /\ batch_results = <<>>
        /\ processed_files = <<>>
        /\ response.status # 200

====
